---- MODULE Spec2Model ----
(***************************************************************************)
(* Event dispatch core of native-windows-gui (src/win32/window.rs):        *)
(* identifier allocators, window construction, the subtree event           *)
(* interceptor (bind_event_handler / process_events), the single-window    *)
(* raw interceptor (bind_raw_event_handler / process_raw_events) and the   *)
(* message classifier tables.                                              *)
(*                                                                         *)
(* Native state the code relies on (the window tree, the comctl32 subclass *)
(* chain of every window, the posted-message queue) is part of the state.  *)
(* The callbacks are heap cells: an Rc<F> cell carries its strong count, a *)
(* Box<F> cell is owned by one pointer.                                    *)
(***************************************************************************)
EXTENDS Integers, Sequences, FiniteSets, TLC

\* ------------------------------------------------------------------ bounds
\* Number of native window handles the window manager can hand out.
MaxWindows == 2
\* Number of interceptors installed (callback cells allocated) in one run of
\* the lifetime specification.
MaxCallbacks == 1
\* Number of interceptors installed in one run of the dispatch specification.
MaxHooks == 2
\* Width, in bits, at which the u32 identifier counters are modelled.
IdBits == 3
MaxRunning == 1
MaxDepth == 2
\* Progress bar positions and range bounds are multiples of PosUnit up to
\* MaxPos units: the default range of the native control is two units wide.
MaxPos == 3

\* ------------------------------------------------- winapi message codes
WM_CREATE == 1
WM_DESTROY == 2
WM_MOVE == 3
WM_SIZE == 5
WM_PAINT == 15
WM_CLOSE == 16
WM_NOTIFY == 78
WM_CONTEXTMENU == 123
WM_NCDESTROY == 130
WM_KEYDOWN == 256
WM_COMMAND == 273
WM_TIMER == 275
WM_HSCROLL == 276
WM_VSCROLL == 277
WM_MENUCOMMAND == 294
WM_MOUSEMOVE == 512
WM_LBUTTONDOWN == 513
WM_LBUTTONUP == 514
WM_RBUTTONDOWN == 516
WM_RBUTTONUP == 517
NIN_BALLOONSHOW == 1026
NIN_BALLOONHIDE == 1027
NIN_BALLOONTIMEOUT == 1028
NIN_BALLOONUSERCLICK == 1029
\* progress bar messages and states (commctrl)
PBM_SETPOS == 1026
PBM_DELTAPOS == 1027
PBM_SETSTEP == 1028
PBM_STEPIT == 1029
PBM_SETRANGE32 == 1030
PBM_GETRANGE == 1031
PBM_GETPOS == 1032
PBM_GETSTEP == 1037
PBM_SETSTATE == 1040
PBM_GETSTATE == 1041
PBST_NORMAL == 1
PBST_ERROR == 2
PBST_PAUSED == 3
\* toolkit-private messages (window_helper)
NOTICE_MESSAGE == 1124
NWG_INIT == 1125
NWG_TRAY == 1126

\* ---------------------------------------------- winapi notification codes
\* WM_COMMAND sub-codes are u16; WM_NOTIFY codes are u32 and are written here
\* as the signed value of the same 32-bit pattern (the headers' 0U-753U).
BN_CLICKED == 0
BN_DBLCLK == 5
EN_CHANGE == 768
CBN_SELCHANGE == 1
CBN_DROPDOWN == 7
CBN_CLOSEUP == 8
STN_CLICKED == 0
STN_DBLCLK == 1
LBN_SELCHANGE == 1
LBN_DBLCLK == 2
DTN_CLOSEUP == -753
DTN_DROPDOWN == -754
DTN_DATETIMECHANGE == -759
TCN_SELCHANGE == -551
TCN_SELCHANGING == -552
NM_RELEASEDCAPTURE == -16
TTN_GETDISPINFOW == -530
ERROR_NOT_ENOUGH_MEMORY == 8
ERROR_CLASS_ALREADY_EXISTS == 1410
NM_CLICK == -2
EN_SETFOCUS == 256

\* --------------------------------------------------------------- domains
NULL == 0
Hwnds == 1 .. MaxWindows

HIWORD(x) == (x \div 65536) % 65536
LOWORD(x) == x % 65536
MAKEWPARAM(lo, hi) == hi * 65536 + lo

\* ControlHandle: a closed variant; every value carries the three fields so
\* that equality is structural over tag and fields.
NoHandle == [tag |-> "NoHandle", hwnd |-> NULL, id |-> 0]
Hwnd(h) == [tag |-> "Hwnd", hwnd |-> h, id |-> 0]
Timer(h, n) == [tag |-> "Timer", hwnd |-> h, id |-> n]
Notice(h, n) == [tag |-> "Notice", hwnd |-> h, id |-> n]
MenuItem(m, n) == [tag |-> "MenuItem", hwnd |-> m, id |-> n]
SystemTray(h) == [tag |-> "SystemTray", hwnd |-> h, id |-> 0]

\* ------------------------------------------------------------------ state
VARIABLES
    windows,      \* set of live native windows (HWND values)
    parent,       \* parent[h]: parent window of h, NULL for a top-level window
    class,        \* class[h]: registered class name of h
    visible,      \* set of windows currently shown
    bitmap,       \* set of windows whose STM_GETIMAGE answer is non-null
    chain,        \* chain[h]: comctl32 subclass chain of h, newest first
    heap,         \* heap[c]: callback cell c
    queue,        \* posted messages not yet dispatched
    TIMER_ID,     \* static mut TIMER_ID
    NOTICE_ID,    \* static mut NOTICE_ID
    timers,       \* ids carried by the handles build_timer returned, in order
    notices,      \* ids carried by the handles build_notice returned, in order
    running,      \* the system's timers: <<window, id>> pairs SetTimer has set
    registered,   \* the window class names registered by the process
    stack,        \* the hook procedures running on the thread, innermost last
    out,          \* the ProgressBar control a builder writes to
    bars,         \* bars[h]: state, step, position and range of progress bar h
    sent,         \* messages the last control operation sent to native objects
    trace,        \* what the last dispatched message did, step by step
    released,     \* some callback was invoked after it had been released
    lastOp,       \* the last operation and its outcome
    panicked      \* the thread has panicked

vars == <<windows, parent, class, visible, bitmap, chain, heap, queue,
          TIMER_ID, NOTICE_ID, timers, notices, running, registered, stack, out,
          bars, sent, trace, released, lastOp, panicked>>

winVars == <<windows, parent, class, visible, bitmap>>
idVars == <<TIMER_ID, NOTICE_ID, timers, notices, running>>
pbVars == <<out, bars, sent>>

\* ------------------------------------------------------------- messages
\* A native message: the code, the two parameters, and, for WM_NOTIFY, the
\* NMHDR that l points to.
NoHdr == [hwndFrom |-> NULL, idFrom |-> 0, code |-> 0]
Message(code, wp, lp) == [msg |-> code, w |-> wp, l |-> lp, hdr |-> NoHdr]
NotifyMessage(from, idf, code) ==
    [msg |-> WM_NOTIFY, w |-> idf, l |-> 1,
     hdr |-> [hwndFrom |-> from, idFrom |-> idf, code |-> code]]
CommandMessage(child, code) == Message(WM_COMMAND, MAKEWPARAM(0, code), child)

\* ------------------------------------------------------------- classifier
button_commands(m) ==
    CASE m = BN_CLICKED -> "OnButtonClick"
      [] m = BN_DBLCLK -> "OnButtonDoubleClick"
      [] OTHER -> "Unknown"

\* edit_commands whose default arm reports a text input.
edit_commands_no_default(m) ==
    CASE m = EN_CHANGE -> "OnTextInput"
      [] OTHER -> "OnTextInput"

edit_commands(m) ==
    CASE m = EN_CHANGE -> "OnTextInput"
      [] OTHER -> "Unknown"

\* combo_commands with the close-up and drop-down rows exchanged.
combo_commands_swapped(m) ==
    CASE m = CBN_CLOSEUP -> "OnComboBoxDropdown"
      [] m = CBN_DROPDOWN -> "OnComboBoxClosed"
      [] m = CBN_SELCHANGE -> "OnComboxBoxSelection"
      [] OTHER -> "Unknown"

combo_commands(m) ==
    CASE m = CBN_CLOSEUP -> "OnComboBoxClosed"
      [] m = CBN_DROPDOWN -> "OnComboBoxDropdown"
      [] m = CBN_SELCHANGE -> "OnComboxBoxSelection"
      [] OTHER -> "Unknown"

datetimepick_commands(m) ==
    CASE m = DTN_CLOSEUP -> "OnDatePickerClosed"
      [] m = DTN_DROPDOWN -> "OnDatePickerDropdown"
      [] m = DTN_DATETIMECHANGE -> "OnDatePickerChanged"
      [] OTHER -> "Unknown"

tabs_commands(m) ==
    CASE m = TCN_SELCHANGE -> "TabsContainerChanged"
      [] m = TCN_SELCHANGING -> "TabsContainerChanging"
      [] OTHER -> "Unknown"

track_commands(m) ==
    CASE m = NM_RELEASEDCAPTURE -> "TrackBarUpdated"
      [] OTHER -> "Unknown"

\* has_image is the answer of SendMessageW(handle, STM_GETIMAGE, IMAGE_BITMAP, 0)
\* at the moment of the call.
\* static_commands that takes every control for a label, whatever it holds.
static_commands_label_only(has_image, m) ==
    CASE m = STN_CLICKED -> "OnLabelClick"
      [] m = STN_DBLCLK -> "OnLabelDoubleClick"
      [] OTHER -> "Unknown"

static_commands(has_image, m) ==
    IF has_image
    THEN CASE m = STN_CLICKED -> "OnImageFrameClick"
           [] m = STN_DBLCLK -> "OnImageFrameDoubleClick"
           [] OTHER -> "Unknown"
    ELSE CASE m = STN_CLICKED -> "OnLabelClick"
           [] m = STN_DBLCLK -> "OnLabelDoubleClick"
           [] OTHER -> "Unknown"

listbox_commands(m) ==
    CASE m = LBN_SELCHANGE -> "OnListBoxSelect"
      [] m = LBN_DBLCLK -> "OnListBoxDoubleClick"
      [] OTHER -> "Unknown"

\* One callback invocation: callback(event, data, handle).
Call(e, d, hd) == [event |-> e, data |-> d, handle |-> hd]
\* EventData: NO_DATA, or OnTooltipText(ToolTipTextData { data: notif }), which
\* holds the address of the native NMTTDISPINFOW, not a copy of it.
NO_DATA == [tag |-> "NoData", notif |-> NULL]
OnTooltipText(notif) == [tag |-> "OnTooltipText", notif |-> notif]

\* GetClassNameW: the class name of a live window, the empty string (count 0)
\* for a handle that names no window.
GetClassNameW(cls, wins, h) == IF h \in wins THEN cls[h] ELSE ""

\* GetMenuItemID(menu, position): the native menu's item table.
GetMenuItemID(menu, pos) == 100 * menu + pos

\* A tooltip callback that names the sender of the notification, as the other
\* notifications do.
handle_tooltip_callback_sender(m) ==
    <<Call("OnTooltipText", OnTooltipText(m.l), Hwnd(m.hdr.hwndFrom))>>

\* handle_tooltip_callback(notif, callback): notif is l, the handle is the
\* window named by notif.hdr.idFrom.
handle_tooltip_callback(m) ==
    <<Call("OnTooltipText", OnTooltipText(m.l), Hwnd(m.hdr.idFrom))>>

\* handle_default_notify_callback that reports a control of a class without
\* a table as an unknown event.
handle_default_notify_callback_unknown(cls, wins, m) ==
    LET handle == Hwnd(m.hdr.hwndFrom)
        class_name == GetClassNameW(cls, wins, m.hdr.hwndFrom)
    IN  CASE class_name = "SysDateTimePick32" ->
                <<Call(datetimepick_commands(m.hdr.code), NO_DATA, handle)>>
          [] class_name = "SysTabControl32" ->
                <<Call(tabs_commands(m.hdr.code), NO_DATA, handle)>>
          [] class_name = "msctls_trackbar32" ->
                <<Call(track_commands(m.hdr.code), NO_DATA, handle)>>
          [] OTHER -> <<Call("Unknown", NO_DATA, handle)>>

handle_default_notify_callback(cls, wins, m) ==
    LET handle == Hwnd(m.hdr.hwndFrom)
        class_name == GetClassNameW(cls, wins, m.hdr.hwndFrom)
    IN  CASE class_name = "SysDateTimePick32" ->
                <<Call(datetimepick_commands(m.hdr.code), NO_DATA, handle)>>
          [] class_name = "SysTabControl32" ->
                <<Call(tabs_commands(m.hdr.code), NO_DATA, handle)>>
          [] class_name = "msctls_trackbar32" ->
                <<Call(track_commands(m.hdr.code), NO_DATA, handle)>>
          [] OTHER -> << >>

\* The WM_COMMAND arm of process_events.
command_callback(cls, wins, bmp, m) ==
    LET child_handle == m.l
        message == HIWORD(m.w)
        handle == Hwnd(child_handle)
        class_name == GetClassNameW(cls, wins, child_handle)
    IN  CASE class_name = "Button" -> <<Call(button_commands(message), NO_DATA, handle)>>
          [] class_name = "Edit" -> <<Call(edit_commands(message), NO_DATA, handle)>>
          [] class_name = "ComboBox" -> <<Call(combo_commands(message), NO_DATA, handle)>>
          [] class_name = "Static" ->
                <<Call(static_commands(child_handle \in bmp, message), NO_DATA, handle)>>
          [] class_name = "ListBox" -> <<Call(listbox_commands(message), NO_DATA, handle)>>
          [] OTHER -> << >>

\* The NWG_TRAY arm of process_events.
tray_arm(hwnd, m) ==
    LET msg == LOWORD(m.l)
        handle == SystemTray(hwnd)
    IN  CASE msg = NIN_BALLOONSHOW -> <<Call("OnTrayNotificationShow", NO_DATA, handle)>>
          [] msg = NIN_BALLOONHIDE -> <<Call("OnTrayNotificationHide", NO_DATA, handle)>>
          [] msg = NIN_BALLOONTIMEOUT -> <<Call("OnTrayNotificationTimeout", NO_DATA, handle)>>
          [] msg = NIN_BALLOONUSERCLICK -> <<Call("OnTrayNotificationUserClose", NO_DATA, handle)>>
          [] msg = WM_LBUTTONUP -> <<Call("MousePressLeftUp", NO_DATA, handle)>>
          [] msg = WM_LBUTTONDOWN -> <<Call("MousePressLeftDown", NO_DATA, handle)>>
          [] msg = WM_RBUTTONUP -> <<Call("MousePressRightUp", NO_DATA, handle),
                                     Call("OnContextMenu", NO_DATA, handle)>>
          [] msg = WM_RBUTTONDOWN -> <<Call("MousePressRightDown", NO_DATA, handle)>>
          [] msg = WM_MOUSEMOVE -> <<Call("OnMouseMove", NO_DATA, handle)>>
          [] OTHER -> << >>

\* A tray arm that reports a right-button-up like every other tray event:
\* one callback invocation.
tray_callback_single(hwnd, m) ==
    IF LOWORD(m.l) = WM_RBUTTONUP
    THEN <<Call("MousePressRightUp", NO_DATA, SystemTray(hwnd))>>
    ELSE tray_arm(hwnd, m)

tray_callback(hwnd, m) == tray_arm(hwnd, m)

\* The match of process_events with the hooked window as the handle of scroll
\* events.
match_msg_base_handle(cls, wins, bmp, hwnd, m) ==
    LET base_handle == Hwnd(hwnd)
    IN  CASE m.msg = WM_NOTIFY ->
                IF m.hdr.code = TTN_GETDISPINFOW
                THEN handle_tooltip_callback(m)
                ELSE handle_default_notify_callback(cls, wins, m)
          [] m.msg = WM_MENUCOMMAND ->
                <<Call("OnMenuItemClick", NO_DATA, MenuItem(m.l, GetMenuItemID(m.l, m.w)))>>
          [] m.msg = WM_COMMAND -> command_callback(cls, wins, bmp, m)
          [] m.msg = WM_CONTEXTMENU -> <<Call("OnContextMenu", NO_DATA, Hwnd(m.w))>>
          [] m.msg = NWG_TRAY -> tray_callback(hwnd, m)
          [] m.msg = WM_TIMER -> <<Call("OnTimerTick", NO_DATA, Timer(hwnd, m.w))>>
          [] m.msg = WM_SIZE -> <<Call("OnResize", NO_DATA, base_handle)>>
          [] m.msg = WM_MOVE -> <<Call("OnMove", NO_DATA, base_handle)>>
          [] m.msg = WM_HSCROLL -> <<Call("OnHorizontalScroll", NO_DATA, base_handle)>>
          [] m.msg = WM_VSCROLL -> <<Call("OnVerticalScroll", NO_DATA, base_handle)>>
          [] m.msg = WM_MOUSEMOVE -> <<Call("OnMouseMove", NO_DATA, base_handle)>>
          [] m.msg = WM_LBUTTONUP -> <<Call("MousePressLeftUp", NO_DATA, base_handle)>>
          [] m.msg = WM_LBUTTONDOWN -> <<Call("MousePressLeftDown", NO_DATA, base_handle)>>
          [] m.msg = WM_RBUTTONUP -> <<Call("MousePressRightUp", NO_DATA, base_handle)>>
          [] m.msg = WM_RBUTTONDOWN -> <<Call("MousePressRightDown", NO_DATA, base_handle)>>
          [] m.msg = WM_PAINT -> <<Call("OnPaint", NO_DATA, base_handle)>>
          [] m.msg = NOTICE_MESSAGE -> <<Call("OnNotice", NO_DATA, Notice(hwnd, m.w))>>
          [] m.msg = NWG_INIT -> <<Call("OnInit", NO_DATA, base_handle)>>
          [] m.msg = WM_CLOSE -> <<Call("OnWindowClose", NO_DATA, base_handle)>>
          [] OTHER -> << >>

\* The match of process_events with the right-button-up of a window reported
\* as the tray icon's is: a mouse press, then a context menu.
match_msg_context_on_right_up(cls, wins, bmp, hwnd, m) ==
    LET base_handle == Hwnd(hwnd)
    IN  CASE m.msg = WM_NOTIFY ->
                IF m.hdr.code = TTN_GETDISPINFOW
                THEN handle_tooltip_callback(m)
                ELSE handle_default_notify_callback(cls, wins, m)
          [] m.msg = WM_MENUCOMMAND ->
                <<Call("OnMenuItemClick", NO_DATA, MenuItem(m.l, GetMenuItemID(m.l, m.w)))>>
          [] m.msg = WM_COMMAND -> command_callback(cls, wins, bmp, m)
          [] m.msg = WM_CONTEXTMENU -> <<Call("OnContextMenu", NO_DATA, Hwnd(m.w))>>
          [] m.msg = NWG_TRAY -> tray_callback(hwnd, m)
          [] m.msg = WM_TIMER -> <<Call("OnTimerTick", NO_DATA, Timer(hwnd, m.w))>>
          [] m.msg = WM_SIZE -> <<Call("OnResize", NO_DATA, base_handle)>>
          [] m.msg = WM_MOVE -> <<Call("OnMove", NO_DATA, base_handle)>>
          [] m.msg = WM_HSCROLL -> <<Call("OnHorizontalScroll", NO_DATA, Hwnd(m.l))>>
          [] m.msg = WM_VSCROLL -> <<Call("OnVerticalScroll", NO_DATA, Hwnd(m.l))>>
          [] m.msg = WM_MOUSEMOVE -> <<Call("OnMouseMove", NO_DATA, base_handle)>>
          [] m.msg = WM_LBUTTONUP -> <<Call("MousePressLeftUp", NO_DATA, base_handle)>>
          [] m.msg = WM_LBUTTONDOWN -> <<Call("MousePressLeftDown", NO_DATA, base_handle)>>
          [] m.msg = WM_RBUTTONUP -> <<Call("MousePressRightUp", NO_DATA, base_handle),
                                       Call("OnContextMenu", NO_DATA, base_handle)>>
          [] m.msg = WM_RBUTTONDOWN -> <<Call("MousePressRightDown", NO_DATA, base_handle)>>
          [] m.msg = WM_PAINT -> <<Call("OnPaint", NO_DATA, base_handle)>>
          [] m.msg = NOTICE_MESSAGE -> <<Call("OnNotice", NO_DATA, Notice(hwnd, m.w))>>
          [] m.msg = NWG_INIT -> <<Call("OnInit", NO_DATA, base_handle)>>
          [] m.msg = WM_CLOSE -> <<Call("OnWindowClose", NO_DATA, base_handle)>>
          [] OTHER -> << >>

\* The match of process_events with the timer tick carrying a notice handle.
match_msg_timer_as_notice(cls, wins, bmp, hwnd, m) ==
    LET base_handle == Hwnd(hwnd)
    IN  CASE m.msg = WM_NOTIFY ->
                IF m.hdr.code = TTN_GETDISPINFOW
                THEN handle_tooltip_callback(m)
                ELSE handle_default_notify_callback(cls, wins, m)
          [] m.msg = WM_MENUCOMMAND ->
                <<Call("OnMenuItemClick", NO_DATA, MenuItem(m.l, GetMenuItemID(m.l, m.w)))>>
          [] m.msg = WM_COMMAND -> command_callback(cls, wins, bmp, m)
          [] m.msg = WM_CONTEXTMENU -> <<Call("OnContextMenu", NO_DATA, Hwnd(m.w))>>
          [] m.msg = NWG_TRAY -> tray_callback(hwnd, m)
          [] m.msg = WM_TIMER -> <<Call("OnTimerTick", NO_DATA, Notice(hwnd, m.w))>>
          [] m.msg = WM_SIZE -> <<Call("OnResize", NO_DATA, base_handle)>>
          [] m.msg = WM_MOVE -> <<Call("OnMove", NO_DATA, base_handle)>>
          [] m.msg = WM_HSCROLL -> <<Call("OnHorizontalScroll", NO_DATA, Hwnd(m.l))>>
          [] m.msg = WM_VSCROLL -> <<Call("OnVerticalScroll", NO_DATA, Hwnd(m.l))>>
          [] m.msg = WM_MOUSEMOVE -> <<Call("OnMouseMove", NO_DATA, base_handle)>>
          [] m.msg = WM_LBUTTONUP -> <<Call("MousePressLeftUp", NO_DATA, base_handle)>>
          [] m.msg = WM_LBUTTONDOWN -> <<Call("MousePressLeftDown", NO_DATA, base_handle)>>
          [] m.msg = WM_RBUTTONUP -> <<Call("MousePressRightUp", NO_DATA, base_handle)>>
          [] m.msg = WM_RBUTTONDOWN -> <<Call("MousePressRightDown", NO_DATA, base_handle)>>
          [] m.msg = WM_PAINT -> <<Call("OnPaint", NO_DATA, base_handle)>>
          [] m.msg = NOTICE_MESSAGE -> <<Call("OnNotice", NO_DATA, Notice(hwnd, m.w))>>
          [] m.msg = NWG_INIT -> <<Call("OnInit", NO_DATA, base_handle)>>
          [] m.msg = WM_CLOSE -> <<Call("OnWindowClose", NO_DATA, base_handle)>>
          [] OTHER -> << >>

\* The match of process_events: the callback invocations, in order, that a
\* message makes on the hook of window hwnd.
match_msg(cls, wins, bmp, hwnd, m) ==
    LET base_handle == Hwnd(hwnd)
    IN  CASE m.msg = WM_NOTIFY ->
                IF m.hdr.code = TTN_GETDISPINFOW
                THEN handle_tooltip_callback(m)
                ELSE handle_default_notify_callback(cls, wins, m)
          [] m.msg = WM_MENUCOMMAND ->
                <<Call("OnMenuItemClick", NO_DATA, MenuItem(m.l, GetMenuItemID(m.l, m.w)))>>
          [] m.msg = WM_COMMAND -> command_callback(cls, wins, bmp, m)
          [] m.msg = WM_CONTEXTMENU -> <<Call("OnContextMenu", NO_DATA, Hwnd(m.w))>>
          [] m.msg = NWG_TRAY -> tray_callback(hwnd, m)
          [] m.msg = WM_TIMER -> <<Call("OnTimerTick", NO_DATA, Timer(hwnd, m.w))>>
          [] m.msg = WM_SIZE -> <<Call("OnResize", NO_DATA, base_handle)>>
          [] m.msg = WM_MOVE -> <<Call("OnMove", NO_DATA, base_handle)>>
          [] m.msg = WM_HSCROLL -> <<Call("OnHorizontalScroll", NO_DATA, Hwnd(m.l))>>
          [] m.msg = WM_VSCROLL -> <<Call("OnVerticalScroll", NO_DATA, Hwnd(m.l))>>
          [] m.msg = WM_MOUSEMOVE -> <<Call("OnMouseMove", NO_DATA, base_handle)>>
          [] m.msg = WM_LBUTTONUP -> <<Call("MousePressLeftUp", NO_DATA, base_handle)>>
          [] m.msg = WM_LBUTTONDOWN -> <<Call("MousePressLeftDown", NO_DATA, base_handle)>>
          [] m.msg = WM_RBUTTONUP -> <<Call("MousePressRightUp", NO_DATA, base_handle)>>
          [] m.msg = WM_RBUTTONDOWN -> <<Call("MousePressRightDown", NO_DATA, base_handle)>>
          [] m.msg = WM_PAINT -> <<Call("OnPaint", NO_DATA, base_handle)>>
          [] m.msg = NOTICE_MESSAGE -> <<Call("OnNotice", NO_DATA, Notice(hwnd, m.w))>>
          [] m.msg = NWG_INIT -> <<Call("OnInit", NO_DATA, base_handle)>>
          [] m.msg = WM_CLOSE -> <<Call("OnWindowClose", NO_DATA, base_handle)>>
          [] OTHER -> << >>

\* ------------------------------------------------------- callback cells
\* The heap is the sequence of the cells allocated so far; a cell is named by
\* its index.  rc: the strong count of an Rc cell (1 for a live Box).
\* released: how many times the cell's contents were dropped.
RcNew(hp, f) == Append(hp, [kind |-> "Rc", rc |-> 1, released |-> 0, fn |-> f])
RcClone(hp, c) == [hp EXCEPT ![c].rc = @ + 1]
\* Dropping one owner: the count goes down, the contents are released when
\* it reaches zero.  (Dropping an owner of a released cell releases again.)
RcDrop(hp, c) ==
    IF hp[c].rc > 1
    THEN [hp EXCEPT ![c].rc = @ - 1]
    ELSE [hp EXCEPT ![c].rc = 0, ![c].released = IF @ < 2 THEN @ + 1 ELSE @]

BoxNew(hp, f) == Append(hp, [kind |-> "Box", rc |-> 1, released |-> 0, fn |-> f])
BoxDrop(hp, c) == RcDrop(hp, c)

\* -------------------------------------------------------- subclass chains
Hook(proc, f, id, data) == [proc |-> proc, fn |-> f, id |-> id, data |-> data]

SameSubclass(a, b) == a.proc = b.proc /\ a.fn = b.fn /\ a.id = b.id

\* comctl32 SetWindowSubclass: a subclass is identified by (procedure, id);
\* installing it again only replaces its reference data, a new one is called
\* before the ones already installed.
SetWindowSubclass(ch, hk) ==
    IF \E i \in 1 .. Len(ch) : SameSubclass(ch[i], hk)
    THEN [i \in 1 .. Len(ch) |-> IF SameSubclass(ch[i], hk) THEN hk ELSE ch[i]]
    ELSE <<hk>> \o ch

\* The hooks (window, position) whose reference data is callback cell c.
HooksOf(chs, c) ==
    UNION {{<<h, i>> : i \in {j \in DOMAIN chs[h] : chs[h][j].data = c}} : h \in Hwnds}

\* ------------------------------------------------------------ window tree
RECURSIVE IsDescendant(_, _, _, _)
IsDescendant(par, h, root, fuel) ==
    /\ fuel > 0
    /\ par[h] # NULL
    /\ (par[h] = root \/ IsDescendant(par, par[h], root, fuel - 1))

Descendants(par, wins, root) ==
    {h \in wins : h # root /\ IsDescendant(par, h, root, MaxWindows)}

RECURSIVE SetToSeq(_)
SetToSeq(S) ==
    IF S = {} THEN << >>
    ELSE LET x == CHOOSE y \in S : \A z \in S : y <= z
         IN  <<x>> \o SetToSeq(S \ {x})

\* EnumChildWindows(hwnd, ..): the child windows of hwnd and, recursively,
\* theirs, each visited once.
EnumChildWindows(par, wins, hwnd) == SetToSeq(Descendants(par, wins, hwnd))

\* ------------------------------------------------------------- dispatching
None == [some |-> FALSE, r |-> 0]
Some(v) == [some |-> TRUE, r |-> v]

Step(o, hwnd, m, pos, c, lv, call, v) ==
    [op |-> o, hwnd |-> hwnd, msg |-> m.msg, pos |-> pos, cb |-> c, live |-> lv,
     event |-> call.event, data |-> call.data, handle |-> call.handle, val |-> v]
NoCall == Call("", NO_DATA, NoHandle)

\* What one delivery leaves behind: the steps taken, the value returned to
\* the caller, the heap, the windows hidden and the messages posted.
Outcome(tr, r, hp, hd, ps) ==
    [trace |-> tr, ret |-> r, heap |-> hp, hide |-> hd, post |-> ps]

\* A base procedure without the WM_CLOSE arm: the close request goes to the
\* default window procedure.
blank_window_proc_forwards_close(hwnd, m, dr) ==
    CASE m.msg = WM_CREATE -> [ret |-> 0, hide |-> {}, post |-> <<<<hwnd, NWG_INIT>>>>]
      [] OTHER -> [ret |-> dr, hide |-> {}, post |-> << >>]

\* A base procedure that posts the initialization message twice.
blank_window_proc_posts_twice(hwnd, m, dr) ==
    CASE m.msg = WM_CREATE ->
            [ret |-> 0, hide |-> {}, post |-> <<<<hwnd, NWG_INIT>>, <<hwnd, NWG_INIT>>>>]
      [] m.msg = WM_CLOSE -> [ret |-> 0, hide |-> {hwnd}, post |-> << >>]
      [] OTHER -> [ret |-> dr, hide |-> {}, post |-> << >>]

blank_window_proc(hwnd, m, dr) ==
    CASE m.msg = WM_CREATE -> [ret |-> 0, hide |-> {}, post |-> <<<<hwnd, NWG_INIT>>>>]
      [] m.msg = WM_CLOSE -> [ret |-> 0, hide |-> {hwnd}, post |-> << >>]
      [] OTHER -> [ret |-> dr, hide |-> {}, post |-> << >>]

\* The window procedure of the window's class: blank_window_proc for the
\* toolkit's class, the system's procedure (result dr) for a control class.
WndProc(cls, hwnd, m, dr) ==
    IF cls[hwnd] = "NativeWindowsGuiWindow"
    THEN blank_window_proc(hwnd, m, dr)
    ELSE [ret |-> dr, hide |-> {}, post |-> << >>]

\* A hook procedure that lets the owner it took with from_raw go out of
\* scope: the strong count drops on every message.
drop_callback(hp, c) == RcDrop(hp, c)

\* mem::forget(callback): the owner taken with from_raw is given up without
\* running its destructor.
forget_callback(hp, c) == hp
forget_raw_callback(hp, c) == hp

\* env: what the dispatch reads from the rest of the state:
\*   [cls, wins, bmp, ans, dr]; ans[c] is what raw callback c answers, dr is
\*   the result of the system's default window procedure.
RECURSIVE CallSubclass(_, _, _, _, _, _)

\* The steps of the callback invocations a hook makes, one per call.
Invocations(hwnd, m, i, c, lv, calls) ==
    [k \in 1 .. Len(calls) |-> Step("callback", hwnd, m, i, c, lv, calls[k], 0)]

\* DefSubclassProc from the hook at position i, after the steps pre: d is
\* what the rest of the chain did; the hook returns what it returned.
Forwarded(pre, hwnd, m, i, c, d) ==
    Outcome(pre \o <<Step("DefSubclassProc", hwnd, m, i, c, TRUE, NoCall, 0)>>
                \o d.trace \o <<Step("return", hwnd, m, i, c, TRUE, NoCall, d.ret)>>,
            d.ret, d.heap, d.hide, d.post)

\* The hook at position i returns r itself, after the steps pre.
Returned(pre, hwnd, m, i, c, r, hp) ==
    Outcome(pre \o <<Step("return", hwnd, m, i, c, TRUE, NoCall, r)>>, r, hp, {}, << >>)

\* A hook that reports a close request as handled after the callback
\* instead of forwarding it.
process_events_handled(env, hwnd, m, ch, i, hp) ==
    LET c == ch[i].data
        invoked == Invocations(hwnd, m, i, c, hp[c].released = 0,
                               match_msg(env.cls, env.wins, env.bmp, hwnd, m))
    IN  IF m.msg = WM_CLOSE
        THEN Returned(invoked, hwnd, m, i, c, 0, forget_callback(hp, c))
        ELSE CHOOSE o \in {Forwarded(invoked, hwnd, m, i, c, d) :
                              d \in {CallSubclass(env, hwnd, m, ch, i + 1,
                                                  forget_callback(hp, c))}} : TRUE

\* A hook that forwards to the default handler first and invokes the
\* callback when the rest of the chain has returned.
process_events_forward_first(env, hwnd, m, ch, i, hp) ==
    LET c == ch[i].data
        invoked == Invocations(hwnd, m, i, c, hp[c].released = 0,
                               match_msg(env.cls, env.wins, env.bmp, hwnd, m))
    IN  CHOOSE o \in {Outcome(<<Step("DefSubclassProc", hwnd, m, i, c, TRUE, NoCall, 0)>>
                                 \o d.trace \o invoked
                                 \o <<Step("return", hwnd, m, i, c, TRUE, NoCall, d.ret)>>,
                              d.ret, d.heap, d.hide, d.post) :
                         d \in {CallSubclass(env, hwnd, m, ch, i + 1,
                                             forget_callback(hp, c))}} : TRUE

\* process_events on the hook at position i of the chain ch of hwnd: the
\* match, mem::forget, then DefSubclassProc, whose result is returned.
process_events(env, hwnd, m, ch, i, hp) ==
    LET c == ch[i].data
        invoked == Invocations(hwnd, m, i, c, hp[c].released = 0,
                               match_msg(env.cls, env.wins, env.bmp, hwnd, m))
    IN  CHOOSE o \in {Forwarded(invoked, hwnd, m, i, c, d) :
                         d \in {CallSubclass(env, hwnd, m, ch, i + 1,
                                             forget_callback(hp, c))}} : TRUE

\* The step of the raw callback's invocation, with what it answered.
RawInvocation(hwnd, m, i, c, lv, result) ==
    <<Step("raw_callback", hwnd, m, i, c, lv,
           Call(IF result.some THEN "Some" ELSE "None", NO_DATA, NoHandle), result.r)>>

\* A raw hook that forwards to the default handler whatever the callback
\* answered, and returns the callback's result when there is one.
process_raw_events_always_default(env, hwnd, m, ch, i, hp) ==
    LET c == ch[i].data
        result == env.ans[c]
        invoked == RawInvocation(hwnd, m, i, c, hp[c].released = 0, result)
    IN  CHOOSE o \in {IF result.some
                      THEN [Forwarded(invoked, hwnd, m, i, c, d) EXCEPT !.ret = result.r]
                      ELSE Forwarded(invoked, hwnd, m, i, c, d) :
                         d \in {CallSubclass(env, hwnd, m, ch, i + 1,
                                             forget_raw_callback(hp, c))}} : TRUE

\* process_raw_events on the hook at position i of the chain ch of hwnd.
process_raw_events(env, hwnd, m, ch, i, hp) ==
    LET c == ch[i].data
        result == env.ans[c]
        invoked == RawInvocation(hwnd, m, i, c, hp[c].released = 0, result)
    IN  IF result.some
        THEN Returned(invoked, hwnd, m, i, c, result.r, forget_raw_callback(hp, c))
        ELSE CHOOSE o \in {Forwarded(invoked, hwnd, m, i, c, d) :
                              d \in {CallSubclass(env, hwnd, m, ch, i + 1,
                                                  forget_raw_callback(hp, c))}} : TRUE

\* comctl32: call the subclass at position i, or the window's own procedure
\* after the last one (what DefSubclassProc does from position i - 1).
CallSubclass(env, hwnd, m, ch, i, hp) ==
    IF i > Len(ch)
    THEN LET r == WndProc(env.cls, hwnd, m, env.dr)
         IN  Outcome(<<Step("WndProc", hwnd, m, i, 0, TRUE, NoCall, r.ret)>>,
                     r.ret, hp, r.hide, r.post)
    ELSE IF ch[i].proc = "process_events"
         THEN process_events(env, hwnd, m, ch, i, hp)
         ELSE process_raw_events(env, hwnd, m, ch, i, hp)

\* ------------------------------------------------------------ installing
\* An enumeration callback that hands its own owner to the child's hook
\* instead of a clone: the count is not raised.
iter_children_window_no_clone(st, h, c, f) ==
    [heap |-> st.heap,
     chain |-> [st.chain EXCEPT
                  ![h] = SetWindowSubclass(@, Hook("process_events", f, 0, c))]]

\* iter_children_window: the EnumChildWindows callback, on child h.
\* st = [heap, chain].
iter_children_window(st, h, c, f) ==
    [heap |-> RcClone(st.heap, c),
     chain |-> [st.chain EXCEPT
                  ![h] = SetWindowSubclass(@, Hook("process_events", f, 0, c))]]

RECURSIVE EnumFold(_, _, _, _)
EnumFold(st, children, c, f) ==
    IF children = << >> THEN st
    ELSE EnumFold(iter_children_window(st, Head(children), c, f), Tail(children), c, f)

\* A bind_event_handler that hooks the root window only.
bind_event_handler_root_only(hp, chs, par, wins, handle, f) ==
    LET hp1 == RcNew(hp, f)
        c == Len(hp1)
    IN  IF handle.tag # "Hwnd"
        THEN [heap |-> hp1, chain |-> chs, res |-> "panic"]
        ELSE [heap |-> hp1,
              chain |-> [chs EXCEPT
                  ![handle.hwnd] = SetWindowSubclass(@, Hook("process_events", f, 0, c))],
              res |-> "Ok"]

\* bind_event_handler(handle, f), f of closure type f; c is its Rc cell.
bind_event_handler(hp, chs, par, wins, handle, f) ==
    LET hp1 == RcNew(hp, f)
        c == Len(hp1)
    IN  IF handle.tag # "Hwnd"
        THEN [heap |-> hp1, chain |-> chs, res |-> "panic"]
        ELSE LET hwnd == handle.hwnd
                 st == EnumFold([heap |-> hp1, chain |-> chs],
                                EnumChildWindows(par, wins, hwnd), c, f)
             IN  [heap |-> st.heap,
                  chain |-> [st.chain EXCEPT
                      ![hwnd] = SetWindowSubclass(@, Hook("process_events", f, 0, c))],
                  res |-> "Ok"]

\* An installer that takes the window out of any handle that carries one.
bind_raw_event_handler_any_handle(hp, chs, handle, id, f) ==
    IF handle.hwnd # NULL
    THEN [heap |-> BoxNew(hp, f),
          chain |-> [chs EXCEPT ![handle.hwnd] =
                        SetWindowSubclass(@, Hook("process_raw_events", f, id, Len(hp) + 1))],
          res |-> "Ok"]
    ELSE [heap |-> hp, chain |-> chs, res |-> "panic"]

\* bind_raw_event_handler(handle, id, f); the Box cell is the next one.
bind_raw_event_handler(hp, chs, handle, id, f) ==
    IF handle.tag = "Hwnd"
    THEN [heap |-> BoxNew(hp, f),
          chain |-> [chs EXCEPT ![handle.hwnd] =
                        SetWindowSubclass(@, Hook("process_raw_events", f, id, Len(hp) + 1))],
          res |-> "Ok"]
    ELSE [heap |-> hp, chain |-> chs, res |-> "panic"]

\* ---------------------------------------------------------------- actions
NoMessage == Message(0, 0, 0)
Op(o, h, hd, c, res, r, m) ==
    [op |-> o, hwnd |-> h, handle |-> hd, cb |-> c, res |-> res, ret |-> r, m |-> m]

FreeHwnds == Hwnds \ windows
Lowest(S) == CHOOSE x \in S : \A y \in S : x <= y

SubclassIds == {0, 1}
DefResults == {1}
RawAnswers == {None, Some(2)}

\* The handles an application can hold: the window handle of every live
\* window, and one handle of every other kind.
WindowHandles == {Hwnd(h) : h \in windows}
OtherHandles ==
    LET h == IF windows = {} THEN NULL ELSE Lowest(windows)
    IN  {NoHandle, Timer(h, 1), Notice(h, 1), MenuItem(h, 1), SystemTray(h)}

\* A build_hwnd_control under which a new child takes over the hooks of its
\* parent.
BuildHwndControl_inherits(cls, p) ==
    /\ ~panicked
    /\ FreeHwnds # {}
    /\ \E outcome \in {"Ok", "WindowCreationFailed", "GetModuleHandleFailed"} :
        IF outcome = "Ok"
        THEN LET h == Lowest(FreeHwnds)
                 cls1 == [class EXCEPT ![h] = cls]
                 r == WndProc(cls1, h, Message(WM_CREATE, 0, 0), 0)
             IN  /\ windows' = windows \cup {h}
                 /\ parent' = [parent EXCEPT ![h] = p]
                 /\ class' = cls1
                 /\ visible' = visible \cup {h}
                 /\ queue' = queue \o r.post
                 /\ chain' = [chain EXCEPT ![h] = IF p = NULL THEN << >> ELSE chain[p]]
                 /\ lastOp' = Op("build_hwnd_control", h, Hwnd(h), 0, "Ok", 0, NoMessage)
        ELSE /\ UNCHANGED <<windows, parent, class, visible, queue, chain>>
             /\ lastOp' = Op("build_hwnd_control", NULL, NoHandle, 0, outcome, 0, NoMessage)
    /\ trace' = << >>
    /\ UNCHANGED <<bitmap, heap, idVars, registered, stack, released, panicked,
                   pbVars>>

\* build_hwnd_control(class_name, .., parent): GetModuleHandleW and
\* CreateWindowExW can each fail.  CreateWindowExW delivers WM_CREATE to the
\* class's window procedure before it returns.
BuildHwndControl(cls, p) ==
    /\ ~panicked
    /\ FreeHwnds # {}
    /\ \E outcome \in {"Ok", "WindowCreationFailed", "GetModuleHandleFailed"} :
        IF outcome = "Ok"
        THEN LET h == Lowest(FreeHwnds)
                 cls1 == [class EXCEPT ![h] = cls]
                 r == WndProc(cls1, h, Message(WM_CREATE, 0, 0), 0)
             IN  /\ windows' = windows \cup {h}
                 /\ parent' = [parent EXCEPT ![h] = p]
                 /\ class' = cls1
                 /\ visible' = visible \cup {h}
                 /\ queue' = queue \o r.post
                 /\ lastOp' = Op("build_hwnd_control", h, Hwnd(h), 0, "Ok", 0, NoMessage)
        ELSE /\ UNCHANGED <<windows, parent, class, visible, queue>>
             /\ lastOp' = Op("build_hwnd_control", NULL, NoHandle, 0, outcome, 0, NoMessage)
    /\ trace' = << >>
    /\ UNCHANGED <<bitmap, chain, heap, idVars, registered, stack, released, panicked,
                   pbVars>>

BindEventHandler(handle, f, cap) ==
    /\ ~panicked
    /\ Len(heap) < cap
    /\ \E r \in {bind_event_handler(heap, chain, parent, windows, handle, f)} :
           /\ heap' = r.heap
           /\ chain' = r.chain
           /\ panicked' = (r.res = "panic")
           /\ lastOp' = Op("bind_event_handler", handle.hwnd, handle, Len(r.heap), r.res, 0,
                           NoMessage)
    /\ trace' = << >>
    /\ UNCHANGED <<winVars, queue, idVars, registered, stack, released,
                   pbVars>>

BindRawEventHandler(handle, id, f, cap) ==
    /\ ~panicked
    /\ Len(heap) < cap
    /\ \E r \in {bind_raw_event_handler(heap, chain, handle, id, f)} :
           /\ heap' = r.heap
           /\ chain' = r.chain
           /\ panicked' = (r.res = "panic")
           /\ lastOp' = Op("bind_raw_event_handler", handle.hwnd, handle, Len(heap) + 1, r.res, id,
                           NoMessage)
    /\ trace' = << >>
    /\ UNCHANGED <<winVars, queue, idVars, registered, stack, released,
                   pbVars>>

Env(ans, dr) == [cls |-> class, wins |-> windows, bmp |-> bitmap, ans |-> ans, dr |-> dr]

\* The native dispatcher delivers message m to window h.  trace keeps the
\* steps of the delivery when rec is set; released records that a callback
\* was invoked after its release.
InvokesReleased(tr) ==
    \E i \in 1 .. Len(tr) : tr[i].op \in {"callback", "raw_callback"} /\ ~tr[i].live

Dispatch(h, m, ans, dr, rec, rest) ==
    \E r \in {CallSubclass(Env(ans, dr), h, m, chain[h], 1, heap)} :
        /\ heap' = r.heap
        /\ trace' = IF rec THEN r.trace ELSE << >>
        /\ released' = (released \/ InvokesReleased(r.trace))
        /\ visible' = visible \ r.hide
        /\ queue' = rest \o r.post
        /\ lastOp' = IF rec THEN Op("dispatch", h, Hwnd(h), 0, "Ok", r.ret, m)
                            ELSE Op("dispatch", NULL, NoHandle, 0, "Ok", 0, NoMessage)
        /\ UNCHANGED <<windows, parent, class, bitmap, chain, idVars, registered, stack, panicked,
                   pbVars>>

Deliver(h, m, ans, dr, rec) ==
    /\ ~panicked
    /\ h \in windows
    /\ Dispatch(h, m, ans, dr, rec, queue)

\* The message pump takes the oldest posted message and dispatches it.
PumpMessage(ans, dr, rec) ==
    /\ ~panicked
    /\ queue # << >>
    /\ Dispatch(Head(queue)[1], Message(Head(queue)[2], 0, 0), ans, dr, rec, Tail(queue))

\* Destruction of window h: h and its descendants each receive WM_DESTROY and
\* WM_NCDESTROY through their hooks, then comctl32 removes their subclasses
\* and the windows are gone.  The hook procedures do nothing else on it.
RECURSIVE DestroyFold(_, _, _, _)
DestroyFold(env, ws, hp, bad) ==
    IF ws = << >> THEN [heap |-> hp, released |-> bad]
    ELSE CHOOSE o \in
            {DestroyFold(env, Tail(ws), b.heap,
                         bad \/ InvokesReleased(a.trace) \/ InvokesReleased(b.trace)) :
                <<a, b>> \in
                    {<<a0, CallSubclass(env, Head(ws), Message(WM_NCDESTROY, 0, 0),
                                        chain[Head(ws)], 1, a0.heap)>> :
                        a0 \in {CallSubclass(env, Head(ws), Message(WM_DESTROY, 0, 0),
                                             chain[Head(ws)], 1, hp)}}} : TRUE

DestroyWindow(h, ans, dr) ==
    /\ ~panicked
    /\ h \in windows
    /\ \E gone \in {{h} \cup Descendants(parent, windows, h)} :
       \E r \in {DestroyFold(Env(ans, dr), SetToSeq(gone), heap, released)} :
           /\ heap' = r.heap
           /\ trace' = << >>
           /\ released' = r.released
           /\ windows' = windows \ gone
           /\ parent' = [w \in Hwnds |-> IF w \in gone THEN NULL ELSE parent[w]]
           /\ class' = [w \in Hwnds |-> IF w \in gone THEN "" ELSE class[w]]
           /\ visible' = visible \ gone
           /\ bitmap' = bitmap \ gone
           /\ chain' = [w \in Hwnds |-> IF w \in gone THEN << >> ELSE chain[w]]
           /\ queue' = SelectSeq(queue, LAMBDA q : q[1] \notin gone)
           /\ lastOp' = Op("DestroyWindow", NULL, NoHandle, 0, "Ok", 0, NoMessage)
    /\ UNCHANGED <<idVars, registered, stack, panicked,
                   pbVars>>

\* ------------------------------------------------------------------- Init
\* ------------------------------------------------------------ progress bar
\* controls/progress_bar.rs.  The control is a thin wrapper: every method
\* checks its handle and sends one message to the native progress bar.
NOT_BOUND == "Progress bar is not yet bound to a winapi object"
BAD_HANDLE == "INTERNAL ERROR: Progress bar handle is not HWND!"
UNKNOWN_STATE == "Unkown progress bar state"

\* struct ProgressBar { handle }
ProgressBar(handle) == [handle |-> handle]

\* ControlHandle::blank and ControlHandle::hwnd
ControlHandle_blank(handle) == handle.tag = "NoHandle"
ControlHandle_hwnd(handle) == IF handle.tag = "Hwnd" THEN Some(handle.hwnd) ELSE None

\* The native progress bar: state, step increment, position, range.
Bar(st, stp, p, lo, hi) ==
    [state |-> st, step |-> stp, pos |-> p, lo |-> lo, hi |-> hi]
NoBar == Bar(0, 0, 0, 0, 0)
\* A progress bar as CreateWindowExW leaves it: range 0..100, step 10.
DefaultBar == Bar(PBST_NORMAL, 10, 0, 0, 100)

Clamp(v, lo, hi) == IF v < lo THEN lo ELSE IF v > hi THEN hi ELSE v

\* The window procedure of the class msctls_progress32: the new state of
\* the bar and the value the message returns.
ProgressProc(bar, msg, w, l) ==
    CASE msg = PBM_GETSTATE -> [bar |-> bar, ret |-> bar.state]
      [] msg = PBM_SETSTATE -> [bar |-> [bar EXCEPT !.state = w], ret |-> bar.state]
      [] msg = PBM_GETSTEP -> [bar |-> bar, ret |-> bar.step]
      [] msg = PBM_SETSTEP -> [bar |-> [bar EXCEPT !.step = w], ret |-> bar.step]
      [] msg = PBM_GETPOS -> [bar |-> bar, ret |-> bar.pos]
      [] msg = PBM_SETPOS ->
            [bar |-> [bar EXCEPT !.pos = Clamp(w, bar.lo, bar.hi)], ret |-> bar.pos]
      [] msg = PBM_DELTAPOS ->
            [bar |-> [bar EXCEPT !.pos = Clamp(bar.pos + w, bar.lo, bar.hi)],
             ret |-> bar.pos]
      [] msg = PBM_STEPIT ->
            [bar |-> [bar EXCEPT !.pos = IF bar.pos + bar.step > bar.hi
                                          THEN bar.lo
                                          ELSE bar.pos + bar.step],
             ret |-> bar.pos]
      [] msg = PBM_GETRANGE -> [bar |-> bar, ret |-> IF w = 1 THEN bar.lo ELSE bar.hi]
      [] msg = PBM_SETRANGE32 ->
            [bar |-> [bar EXCEPT !.lo = w, !.hi = l, !.pos = Clamp(bar.pos, w, l)],
             ret |-> 0]
      [] OTHER -> [bar |-> bar, ret |-> 0]

\* What a method of the control did: how it ended ("Ok" or the panic
\* message), the value it returned, the messages it sent, the bars after it.
Done(res, ret, snt, b) == [res |-> res, ret |-> ret, sent |-> snt, bars |-> b]
Panic(msg, b) == Done(msg, 0, << >>, b)
Sent(h, msg, w, l) == [hwnd |-> h, msg |-> msg, w |-> w, l |-> l]

\* wh::send_message(handle, msg, w, l): SendMessageW.  A window that is not
\* a live progress bar leaves the message unanswered (0).
send_message(env, b, h, msg, w, l) ==
    IF h \in env.wins /\ env.cls[h] = "msctls_progress32"
    THEN LET r == ProgressProc(b[h], msg, w, l)
         IN  Done("Ok", r.ret, <<Sent(h, msg, w, l)>>, [b EXCEPT ![h] = r.bar])
    ELSE Done("Ok", 0, <<Sent(h, msg, w, l)>>, b)

ProgressBarStates == {PBST_NORMAL, PBST_ERROR, PBST_PAUSED}

ProgressBar_state(env, b, self) ==
    IF ControlHandle_blank(self.handle) THEN Panic(NOT_BOUND, b)
    ELSE IF ControlHandle_hwnd(self.handle) = None THEN Panic(BAD_HANDLE, b)
    ELSE LET r == send_message(env, b, ControlHandle_hwnd(self.handle).r, PBM_GETSTATE, 0, 0)
         IN  IF r.ret \in ProgressBarStates THEN r
             ELSE [r EXCEPT !.res = UNKNOWN_STATE]

ProgressBar_set_state(env, b, self, st) ==
    IF ControlHandle_blank(self.handle) THEN Panic(NOT_BOUND, b)
    ELSE IF ControlHandle_hwnd(self.handle) = None THEN Panic(BAD_HANDLE, b)
    ELSE send_message(env, b, ControlHandle_hwnd(self.handle).r, PBM_SETSTATE, st, 0)

ProgressBar_advance(env, b, self) ==
    IF ControlHandle_blank(self.handle) THEN Panic(NOT_BOUND, b)
    ELSE IF ControlHandle_hwnd(self.handle) = None THEN Panic(BAD_HANDLE, b)
    ELSE send_message(env, b, ControlHandle_hwnd(self.handle).r, PBM_STEPIT, 0, 0)

ProgressBar_advance_delta(env, b, self, v) ==
    IF ControlHandle_blank(self.handle) THEN Panic(NOT_BOUND, b)
    ELSE IF ControlHandle_hwnd(self.handle) = None THEN Panic(BAD_HANDLE, b)
    ELSE send_message(env, b, ControlHandle_hwnd(self.handle).r, PBM_DELTAPOS, v, 0)

ProgressBar_step(env, b, self) ==
    IF ControlHandle_blank(self.handle) THEN Panic(NOT_BOUND, b)
    ELSE IF ControlHandle_hwnd(self.handle) = None THEN Panic(BAD_HANDLE, b)
    ELSE send_message(env, b, ControlHandle_hwnd(self.handle).r, PBM_GETSTEP, 0, 0)

ProgressBar_set_step(env, b, self, st) ==
    IF ControlHandle_blank(self.handle) THEN Panic(NOT_BOUND, b)
    ELSE IF ControlHandle_hwnd(self.handle) = None THEN Panic(BAD_HANDLE, b)
    ELSE send_message(env, b, ControlHandle_hwnd(self.handle).r, PBM_SETSTEP, st, 0)

\* A pos() that leaves the unbound check out.
ProgressBar_pos_unchecked(env, b, self) ==
    IF ControlHandle_hwnd(self.handle) = None THEN Panic(BAD_HANDLE, b)
    ELSE send_message(env, b, ControlHandle_hwnd(self.handle).r, PBM_GETPOS, 0, 0)

ProgressBar_pos(env, b, self) ==
    IF ControlHandle_blank(self.handle) THEN Panic(NOT_BOUND, b)
    ELSE IF ControlHandle_hwnd(self.handle) = None THEN Panic(BAD_HANDLE, b)
    ELSE send_message(env, b, ControlHandle_hwnd(self.handle).r, PBM_GETPOS, 0, 0)

ProgressBar_set_pos(env, b, self, p) ==
    IF ControlHandle_blank(self.handle) THEN Panic(NOT_BOUND, b)
    ELSE IF ControlHandle_hwnd(self.handle) = None THEN Panic(BAD_HANDLE, b)
    ELSE send_message(env, b, ControlHandle_hwnd(self.handle).r, PBM_SETPOS, p, 0)

\* range(): two messages, the low bound (w = 1) then the high bound.
ProgressBar_range(env, b, self) ==
    IF ControlHandle_blank(self.handle) THEN Panic(NOT_BOUND, b)
    ELSE IF ControlHandle_hwnd(self.handle) = None THEN Panic(BAD_HANDLE, b)
    ELSE LET low == send_message(env, b, ControlHandle_hwnd(self.handle).r, PBM_GETRANGE, 1, 0)
             high == send_message(env, low.bars, ControlHandle_hwnd(self.handle).r, PBM_GETRANGE, 0, 0)
         IN  Done("Ok", <<low.ret, high.ret>>, low.sent \o high.sent, high.bars)

ProgressBar_set_range(env, b, self, lo, hi) ==
    IF ControlHandle_blank(self.handle) THEN Panic(NOT_BOUND, b)
    ELSE IF ControlHandle_hwnd(self.handle) = None THEN Panic(BAD_HANDLE, b)
    ELSE send_message(env, b, ControlHandle_hwnd(self.handle).r, PBM_SETRANGE32, lo, hi)

\* focus, set_focus, enabled, set_enabled, visible, set_visible, size,
\* set_size, position, set_position: the same two checks, then one call of
\* a window helper on the window.
HelperMethods == {"focus", "set_focus", "enabled", "set_enabled", "visible",
                  "set_visible", "size", "set_size", "position", "set_position"}
window_method(env, b, self, name) ==
    IF ControlHandle_blank(self.handle) THEN Panic(NOT_BOUND, b)
    ELSE IF ControlHandle_hwnd(self.handle) = None THEN Panic(BAD_HANDLE, b)
    ELSE Done("Ok", 0, <<Sent(ControlHandle_hwnd(self.handle).r, name, 0, 0)>>, b)

\* build_hwnd_control as the builder sees it: the handle of the new window,
\* or the error.
build_hwnd_control(free, outcome) ==
    IF outcome = "Ok"
    THEN [res |-> "Ok", handle |-> Hwnd(Lowest(free))]
    ELSE [res |-> outcome, handle |-> NoHandle]

\* struct ProgressBarBuilder (size, position and flags do not bear on the
\* bar's state and are left out)
ProgressBarBuilder(st, stp, p, lo, hi, par) ==
    [state |-> st, step |-> stp, pos |-> p, range |-> <<lo, hi>>, parent |-> par]

Built(res, o, created, snt, b) ==
    [res |-> res, out |-> o, created |-> created, sent |-> snt, bars |-> b]

\* A build that looks for the parent only after it has created the window.
ProgressBarBuilder_build_creates_first(env, b, o, self, free, outcome) ==
    LET r == build_hwnd_control(free, outcome)
    IN  IF r.res # "Ok"
        THEN Built(r.res, o, NULL, << >>, b)
        ELSE LET o1 == [o EXCEPT !.handle = r.handle]
                 b0 == [b EXCEPT ![r.handle.hwnd] = DefaultBar]
             IN  IF ~self.parent.some
                 THEN Built("ControlWithoutParent", o1, r.handle.hwnd, << >>, b0)
                 ELSE Built("Ok", o1, r.handle.hwnd, << >>, b0)

\* ProgressBarBuilder::build(self, out)
ProgressBarBuilder_build(env, b, o, self, free, outcome) ==
    IF ~self.parent.some
    THEN Built("ControlWithoutParent", o, NULL, << >>, b)
    ELSE LET r == build_hwnd_control(free, outcome)
         IN  IF r.res # "Ok"
             THEN Built(r.res, o, NULL, << >>, b)
             ELSE LET h == r.handle.hwnd
                      o1 == [o EXCEPT !.handle = r.handle]
                      env1 == [env EXCEPT !.wins = @ \cup {h},
                                          !.cls = [@ EXCEPT ![h] = "msctls_progress32"]]
                      b0 == [b EXCEPT ![h] = DefaultBar]
                      r1 == ProgressBar_set_state(env1, b0, o1, self.state)
                      r2 == ProgressBar_set_step(env1, r1.bars, o1, self.step)
                      r3 == ProgressBar_set_pos(env1, r2.bars, o1, self.pos)
                      r4 == ProgressBar_set_range(env1, r3.bars, o1,
                                                  self.range[1], self.range[2])
                  IN  Built("Ok", o1, h, r1.sent \o r2.sent \o r3.sent \o r4.sent,
                            r4.bars)

Init ==
    /\ windows = {}
    /\ parent = [h \in Hwnds |-> NULL]
    /\ class = [h \in Hwnds |-> ""]
    /\ visible = {}
    /\ bitmap = {}
    /\ chain = [h \in Hwnds |-> << >>]
    /\ heap = << >>
    /\ queue = << >>
    /\ TIMER_ID = 1
    /\ NOTICE_ID = 1
    /\ timers = << >>
    /\ notices = << >>
    /\ running = {}
    /\ registered = {"NativeWindowsGuiWindow"}
    /\ stack = << >>
    /\ out = ProgressBar(NoHandle)
    /\ bars = [h \in Hwnds |-> NoBar]
    /\ sent = << >>
    /\ trace = << >>
    /\ released = FALSE
    /\ lastOp = Op("init", NULL, NoHandle, 0, "Ok", 0, NoMessage)
    /\ panicked = FALSE

\* --------------------------------------------- the lifetime specification
\* One top-level window tree: the root is of the toolkit's class, controls
\* are created as children of a live window.  Windows are created and
\* destroyed, interceptors installed, messages dispatched, in any order.
\* Closure types: two for subtree callbacks (hooks of the same type on one
\* window replace each other, of different types stack); raw hooks are told
\* apart by their id, so one closure type serves for them.
FnTypes == {"F", "G"}
RawFnTypes == {"R"}
ControlClasses == {"Button"}

Children(h) == {w \in windows : parent[w] = h}

BuildWindow ==
    \/ windows = {} /\ BuildHwndControl("NativeWindowsGuiWindow", NULL)
    \/ \E p \in windows, cls \in ControlClasses : BuildHwndControl(cls, p)

Bind == \E handle \in WindowHandles \cup OtherHandles, f \in FnTypes :
            BindEventHandler(handle, f, MaxCallbacks)

BindRaw == \E handle \in WindowHandles \cup OtherHandles, id \in SubclassIds, f \in RawFnTypes :
               BindRawEventHandler(handle, id, f, MaxCallbacks)

\* The messages delivered to window h in this specification.
LifeMessages(h) == {Message(WM_SIZE, 0, 0)}

\* The raw callbacks a delivery to the windows ws can reach; each answers
\* as it likes.
RawCells(ws) ==
    {c \in DOMAIN heap : \E h \in ws : \E i \in 1 .. Len(chain[h]) :
        chain[h][i].proc = "process_raw_events" /\ chain[h][i].data = c}
Answers(ws) == [RawCells(ws) -> RawAnswers]

DeliverMessage ==
    \E h \in windows, dr \in DefResults : \E ans \in Answers({h}) :
        \E m \in LifeMessages(h) : Deliver(h, m, ans, dr, FALSE)

Pump == \E dr \in DefResults : \E ans \in Answers(Hwnds) : PumpMessage(ans, dr, FALSE)

Destroy == \E h \in windows, dr \in DefResults : \E ans \in Answers(Hwnds) :
               DestroyWindow(h, ans, dr)

Next == BuildWindow \/ Bind \/ BindRaw \/ DeliverMessage \/ Pump \/ Destroy

Spec == Init /\ [][Next]_vars

\* --------------------------------------------- the dispatch specification
\* The application has built a top-level window with one button in it (the
\* window's initialization message is still queued).  It installs up to
\* MaxHooks interceptors; every kind of message is then delivered, and what
\* each delivery did is kept in trace.
InitDispatch ==
    /\ windows = {1, 2}
    /\ parent = [h \in Hwnds |-> IF h = 2 THEN 1 ELSE NULL]
    /\ class = [h \in Hwnds |-> CASE h = 1 -> "NativeWindowsGuiWindow"
                                   [] h = 2 -> "Button"
                                   [] OTHER -> ""]
    /\ visible = {1, 2}
    /\ bitmap = {}
    /\ chain = [h \in Hwnds |-> << >>]
    /\ heap = << >>
    /\ queue = <<<<1, NWG_INIT>>>>
    /\ TIMER_ID = 1
    /\ NOTICE_ID = 1
    /\ timers = << >>
    /\ notices = << >>
    /\ running = {}
    /\ registered = {"NativeWindowsGuiWindow"}
    /\ stack = << >>
    /\ out = ProgressBar(NoHandle)
    /\ bars = [h \in Hwnds |-> NoBar]
    /\ sent = << >>
    /\ trace = << >>
    /\ released = FALSE
    /\ lastOp = Op("build_hwnd_control", 2, Hwnd(2), 0, "Ok", 0, NoMessage)
    /\ panicked = FALSE

\* The messages delivered to window h: recognized and unrecognized codes,
\* commands and notifications from a child and from no window, tray events.
DispatchMessages(h) ==
    {Message(WM_SIZE, 0, 0), Message(WM_KEYDOWN, 0, 0),
     Message(NWG_TRAY, 0, WM_RBUTTONUP), Message(NWG_TRAY, 0, WM_KEYDOWN),
     CommandMessage(NULL, BN_CLICKED), NotifyMessage(h, h, TTN_GETDISPINFOW)}
    \cup (IF class[h] = "NativeWindowsGuiWindow" THEN {Message(WM_CLOSE, 0, 0)} ELSE {})
    \cup {CommandMessage(w, code) : w \in Children(h), code \in {BN_CLICKED, EN_SETFOCUS}}
    \cup {NotifyMessage(w, w, NM_RELEASEDCAPTURE) : w \in Children(h)}

BindD == \E handle \in WindowHandles, f \in FnTypes : BindEventHandler(handle, f, MaxHooks)

BindRawD == \E handle \in WindowHandles, id \in SubclassIds, f \in RawFnTypes :
                BindRawEventHandler(handle, id, f, MaxHooks)

DeliverD ==
    \E h \in windows, dr \in DefResults : \E ans \in Answers({h}) :
        \E m \in DispatchMessages(h) : Deliver(h, m, ans, dr, TRUE)

PumpD == \E dr \in DefResults : \E ans \in Answers(Hwnds) : PumpMessage(ans, dr, TRUE)

NextDispatch == BindD \/ BindRawD \/ DeliverD \/ PumpD

SpecDispatch == InitDispatch /\ [][NextDispatch]_vars

\* ------------------------------------------------ specification: allocation
\* The identifier counters are u32; the model keeps the same arithmetic at
\* width IdBits.
IdModulus == 2 ^ IdBits
MaxAllocs == IdModulus + 2

\* ctr += 1 on a u32: with overflow checks the addition panics at the range
\* bound, without them it wraps.
AddOne(ctr, checked) ==
    IF ctr + 1 < IdModulus THEN [val |-> ctr + 1, res |-> "Ok"]
    ELSE IF checked THEN [val |-> ctr, res |-> "panic"]
    ELSE [val |-> (ctr + 1) % IdModulus, res |-> "Ok"]

SetTimer(run, hwnd, id) == run \cup {<<hwnd, id>>}

\* build_notice(parent): the handle carries the counter's value before the
\* increment.
build_notice(ctr, p, checked) ==
    LET tmp == ctr
        inc == AddOne(ctr, checked)
    IN  [ctr |-> inc.val, res |-> inc.res,
         handle |-> IF inc.res = "Ok" THEN Notice(p, tmp) ELSE NoHandle]

\* build_timer(parent, interval, stopped)
build_timer(ctr, run, p, stopped, checked) ==
    LET id == ctr
        inc == AddOne(ctr, checked)
    IN  IF inc.res = "Ok"
        THEN [ctr |-> inc.val, res |-> "Ok", handle |-> Timer(p, id),
              running |-> IF ~stopped THEN SetTimer(run, p, id) ELSE run]
        ELSE [ctr |-> ctr, res |-> "panic", handle |-> NoHandle, running |-> run]

BuildNotice(p, checked) ==
    /\ ~panicked
    /\ Len(timers) + Len(notices) < MaxAllocs
    /\ \E r \in {build_notice(NOTICE_ID, p, checked)} :
           /\ NOTICE_ID' = r.ctr
           /\ notices' = IF r.res = "Ok" THEN Append(notices, r.handle.id) ELSE notices
           /\ panicked' = (r.res = "panic")
           /\ lastOp' = Op("build_notice", p, r.handle, 0, r.res, 0, NoMessage)
    /\ trace' = << >>
    /\ UNCHANGED <<winVars, chain, heap, queue, TIMER_ID, timers, running, released,
                   registered, stack,
                   pbVars>>

BuildTimer(p, stopped, checked) ==
    /\ ~panicked
    /\ Len(timers) + Len(notices) < MaxAllocs
    /\ stopped \/ Cardinality(running) < MaxRunning
    /\ \E r \in {build_timer(TIMER_ID, running, p, stopped, checked)} :
           /\ TIMER_ID' = r.ctr
           /\ timers' = IF r.res = "Ok" THEN Append(timers, r.handle.id) ELSE timers
           /\ running' = r.running
           /\ panicked' = (r.res = "panic")
           /\ lastOp' = Op("build_timer", p, r.handle, 0, r.res, 0, NoMessage)
    /\ trace' = << >>
    /\ UNCHANGED <<winVars, chain, heap, queue, NOTICE_ID, notices, released,
                   registered, stack,
                   pbVars>>

\* One toolkit window, already initialized; nothing allocated yet.
InitAlloc ==
    /\ windows = {1}
    /\ parent = [h \in Hwnds |-> NULL]
    /\ class = [h \in Hwnds |-> IF h = 1 THEN "NativeWindowsGuiWindow" ELSE ""]
    /\ visible = {1}
    /\ bitmap = {}
    /\ chain = [h \in Hwnds |-> << >>]
    /\ heap = << >>
    /\ queue = << >>
    /\ TIMER_ID = 1
    /\ NOTICE_ID = 1
    /\ timers = << >>
    /\ notices = << >>
    /\ running = {}
    /\ registered = {"NativeWindowsGuiWindow"}
    /\ stack = << >>
    /\ out = ProgressBar(NoHandle)
    /\ bars = [h \in Hwnds |-> NoBar]
    /\ sent = << >>
    /\ trace = << >>
    /\ released = FALSE
    /\ lastOp = Op("dispatch", NULL, NoHandle, 0, "Ok", 0, NoMessage)
    /\ panicked = FALSE

AllocTimer == \E p \in windows, stopped \in BOOLEAN, checked \in BOOLEAN :
                  BuildTimer(p, stopped, checked)

AllocNotice == \E p \in windows, checked \in BOOLEAN : BuildNotice(p, checked)

NextAlloc == AllocTimer \/ AllocNotice

SpecAlloc == InitAlloc /\ [][NextAlloc]_vars

\* ---------------------------------------------- specification: classifier
\* The classes a child control can be registered under: every class with a
\* table, and one without.
ClassNames ==
    {"Button", "Edit", "ComboBox", "Static", "ListBox", "SysDateTimePick32",
     "SysTabControl32", "msctls_trackbar32", "SysListView32"}

\* Sub-codes of WM_COMMAND and codes of WM_NOTIFY: every code of every table,
\* and one that is in none.
CommandCodes ==
    {BN_CLICKED, BN_DBLCLK, EN_CHANGE, CBN_SELCHANGE, CBN_DROPDOWN, CBN_CLOSEUP,
     STN_CLICKED, STN_DBLCLK, LBN_SELCHANGE, LBN_DBLCLK, EN_SETFOCUS}
NotifyCodes ==
    {DTN_CLOSEUP, DTN_DROPDOWN, DTN_DATETIMECHANGE, TCN_SELCHANGE, TCN_SELCHANGING,
     NM_RELEASEDCAPTURE, TTN_GETDISPINFOW, NM_CLICK}

\* A toolkit window 1 with one child control 2 of any class, and an events
\* handler bound to the window.
InitClassify ==
    /\ windows = {1, 2}
    /\ parent = [h \in Hwnds |-> IF h = 2 THEN 1 ELSE NULL]
    /\ \E c \in ClassNames :
          class = [h \in Hwnds |-> CASE h = 1 -> "NativeWindowsGuiWindow"
                                     [] h = 2 -> c
                                     [] OTHER -> ""]
    /\ visible = {1, 2}
    /\ bitmap = {}
    /\ \E r \in {bind_event_handler(<< >>, [h \in Hwnds |-> << >>], parent, windows,
                                    Hwnd(1), "F")} :
          /\ heap = r.heap
          /\ chain = r.chain
    /\ queue = << >>
    /\ TIMER_ID = 1
    /\ NOTICE_ID = 1
    /\ timers = << >>
    /\ notices = << >>
    /\ running = {}
    /\ registered = {"NativeWindowsGuiWindow"}
    /\ stack = << >>
    /\ out = ProgressBar(NoHandle)
    /\ bars = [h \in Hwnds |-> NoBar]
    /\ sent = << >>
    /\ trace = << >>
    /\ released = FALSE
    /\ lastOp = Op("bind_event_handler", 1, Hwnd(1), 1, "Ok", 0, NoMessage)
    /\ panicked = FALSE

\* The application gives a Static control a bitmap, or takes it away.
SetImage ==
    /\ ~panicked
    /\ \E h \in windows :
          /\ class[h] = "Static"
          /\ bitmap' = IF h \in bitmap THEN bitmap \ {h} ELSE bitmap \cup {h}
          /\ lastOp' = Op("STM_SETIMAGE", h, Hwnd(h), 0, "Ok", 0, NoMessage)
    /\ trace' = << >>
    /\ UNCHANGED <<windows, parent, class, visible, chain, heap, queue, idVars, registered, stack,
                   released, panicked,
                   pbVars>>

\* A control notifies its parent with WM_COMMAND.
Command ==
    \E h \in windows, s \in CommandCodes, dr \in DefResults :
        /\ parent[h] # NULL
        /\ \E ans \in Answers({parent[h]}) :
              Deliver(parent[h], CommandMessage(h, s), ans, dr, TRUE)

\* NMHDR.idFrom: the identifier of the sending control (here its handle); in
\* a tooltip-text request it may instead name the window the tip is for.
IdsFrom(h, code) == IF code = TTN_GETDISPINFOW THEN {h, parent[h]} ELSE {h}

\* A control notifies its parent with WM_NOTIFY.
Notify ==
    \E h \in windows, s \in NotifyCodes, dr \in DefResults :
        /\ parent[h] # NULL
        /\ \E ans \in Answers({parent[h]}), idFrom \in IdsFrom(h, s) :
              Deliver(parent[h], NotifyMessage(h, idFrom, s), ans, dr, TRUE)

NextClassify == Command \/ Notify \/ SetImage

SpecClassify == InitClassify /\ [][NextClassify]_vars

\* -------------------------------------------------- specification: events
\* The messages a window h receives for itself, from its scroll bars, menus,
\* timers, notices and tray icon.
OwnMessages ==
    {WM_SIZE, WM_MOVE, WM_PAINT, WM_MOUSEMOVE, WM_LBUTTONUP, WM_LBUTTONDOWN,
     WM_RBUTTONUP, WM_RBUTTONDOWN, NWG_INIT}
EventMessages(h) ==
    {Message(c, 0, 0) : c \in OwnMessages}
    \cup (IF class[h] = "NativeWindowsGuiWindow" THEN {Message(WM_CLOSE, 0, 0)} ELSE {})
    \cup {Message(c, 0, w) : c \in {WM_HSCROLL, WM_VSCROLL}, w \in windows \cup {NULL}}
    \cup {Message(WM_CONTEXTMENU, w, 0) : w \in windows}
    \cup {Message(WM_MENUCOMMAND, pos, menu) : pos \in {0, 1}, menu \in Hwnds}
    \cup {Message(c, id, 0) : c \in {WM_TIMER, NOTICE_MESSAGE}, id \in {1, 2}}
    \cup {Message(NWG_TRAY, 0, e) : e \in {NIN_BALLOONSHOW, WM_LBUTTONUP, WM_RBUTTONUP}}

DeliverEvent ==
    \E h \in windows, dr \in DefResults : \E ans \in Answers({h}) :
        \E m \in EventMessages(h) : Deliver(h, m, ans, dr, TRUE)

NextEvents == DeliverEvent \/ Command \/ Notify \/ SetImage

SpecEvents == InitClassify /\ [][NextEvents]_vars

\* --------------------------------------------- specification: late children
\* A toolkit window that gets handlers and children in any order, and
\* messages delivered to any of its windows.
LateMessages(h) ==
    {Message(WM_SIZE, 0, 0), Message(WM_KEYDOWN, 0, 0), Message(WM_LBUTTONDOWN, 0, 0)}
    \cup {CommandMessage(w, BN_CLICKED) : w \in Children(h)}

BindL == \E handle \in WindowHandles, f \in FnTypes : BindEventHandler(handle, f, MaxHooks)

BindRawL == \E handle \in WindowHandles, f \in RawFnTypes :
                BindRawEventHandler(handle, 0, f, MaxHooks)

BuildChild == \E cls \in ControlClasses, p \in windows : BuildHwndControl(cls, p)

DeliverL ==
    \E h \in windows, dr \in DefResults : \E ans \in Answers({h}) :
        \E m \in LateMessages(h) : Deliver(h, m, ans, dr, TRUE)

NextLate == BindL \/ BindRawL \/ BuildChild \/ DeliverL

SpecLate == InitAlloc /\ [][NextLate]_vars

\* -------------------------------------------- specification: registration
\* RegisterClassExW(&class): the class atom (0 on failure), the thread's last
\* error and the registered names.  A name that is registered cannot be
\* registered again; a new name is registered unless the system refuses.
RegisterClassExW(reg, class_name, refused) ==
    IF class_name \in reg
    THEN [token |-> 0, error |-> ERROR_CLASS_ALREADY_EXISTS, registered |-> reg]
    ELSE IF refused
    THEN [token |-> 0, error |-> ERROR_NOT_ENOUGH_MEMORY, registered |-> reg]
    ELSE [token |-> 1, error |-> 0, registered |-> reg \cup {class_name}]

\* A build_sysclass that takes every zero atom for a failure.
build_sysclass_strict(reg, class_name, refused) ==
    LET r == RegisterClassExW(reg, class_name, refused)
    IN  [res |-> IF r.token = 0 THEN "SystemClassCreationFailed" ELSE "Ok",
         registered |-> r.registered, attempted |-> TRUE]

build_sysclass(reg, class_name, refused) ==
    LET r == RegisterClassExW(reg, class_name, refused)
    IN  [res |-> IF r.token = 0 /\ r.error # ERROR_CLASS_ALREADY_EXISTS
                 THEN "SystemClassCreationFailed" ELSE "Ok",
         registered |-> r.registered, attempted |-> TRUE]

\* init_window_class(); hmod is what GetModuleHandleW returned.
init_window_class(reg, hmod, refused) ==
    IF hmod = NULL
    THEN [res |-> "GetModuleHandleFailed", registered |-> reg, attempted |-> FALSE]
    ELSE build_sysclass(reg, "NativeWindowsGuiWindow", refused)

\* The names given to build_sysclass: the base class and the classes of
\* custom controls.
SysclassNames == {"NativeWindowsGuiWindow", "NWG_TAB", "NWG_FRAME", "NWG_CANVAS"}
ModuleHandles == {NULL, 1}

\* What a registration call did, with what it met: whether the name was
\* registered before the call, the module handle, the system's refusal.
RegOp(o, class_name, r, hmod, refused) ==
    [op |-> o, class_name |-> class_name, res |-> r.res, attempted |-> r.attempted,
     existed |-> class_name \in registered, hmod |-> hmod, refused |-> refused]

BuildSysclass(class_name, refused) ==
    /\ ~panicked
    /\ \E r \in {build_sysclass(registered, class_name, refused)} :
          /\ registered' = r.registered
          /\ lastOp' = RegOp("build_sysclass", class_name, r, 1, refused)
    /\ trace' = << >>
    /\ UNCHANGED <<winVars, chain, heap, queue, idVars, stack, released, panicked,
                   pbVars>>

InitWindowClass(hmod, refused) ==
    /\ ~panicked
    /\ \E r \in {init_window_class(registered, hmod, refused)} :
          /\ registered' = r.registered
          /\ lastOp' = RegOp("init_window_class", "NativeWindowsGuiWindow", r, hmod, refused)
    /\ trace' = << >>
    /\ UNCHANGED <<winVars, chain, heap, queue, idVars, stack, released, panicked,
                   pbVars>>

\* The process before anything is registered.
InitRegister ==
    /\ windows = {}
    /\ parent = [h \in Hwnds |-> NULL]
    /\ class = [h \in Hwnds |-> ""]
    /\ visible = {}
    /\ bitmap = {}
    /\ chain = [h \in Hwnds |-> << >>]
    /\ heap = << >>
    /\ queue = << >>
    /\ TIMER_ID = 1
    /\ NOTICE_ID = 1
    /\ timers = << >>
    /\ notices = << >>
    /\ running = {}
    /\ registered = {}
    /\ stack = << >>
    /\ out = ProgressBar(NoHandle)
    /\ bars = [h \in Hwnds |-> NoBar]
    /\ sent = << >>
    /\ trace = << >>
    /\ released = FALSE
    /\ lastOp = Op("dispatch", NULL, NoHandle, 0, "Ok", 0, NoMessage)
    /\ panicked = FALSE

RegisterBase == \E hmod \in ModuleHandles, refused \in BOOLEAN : InitWindowClass(hmod, refused)

RegisterClass == \E n \in SysclassNames, refused \in BOOLEAN : BuildSysclass(n, refused)

NextRegister == RegisterBase \/ RegisterClass

SpecRegister == InitRegister /\ [][NextRegister]_vars

\* ------------------------------------------- specification: initialization
\* Windows of the base class and controls are built, handlers are bound, the
\* message pump runs, all in any order.
BuildI ==
    \E cls \in {"NativeWindowsGuiWindow"} \cup ControlClasses, p \in windows \cup {NULL} :
        /\ p = NULL => cls = "NativeWindowsGuiWindow"
        /\ BuildHwndControl(cls, p)

BindI == \E handle \in WindowHandles, f \in FnTypes : BindEventHandler(handle, f, MaxHooks)

DeliverI ==
    \E h \in windows, dr \in DefResults : \E ans \in Answers({h}) :
        Deliver(h, Message(WM_SIZE, 0, 0), ans, dr, TRUE)

PumpI == \E dr \in DefResults : \E ans \in Answers(Hwnds) : PumpMessage(ans, dr, TRUE)

NextInit == BuildI \/ BindI \/ DeliverI \/ PumpI

SpecInit == Init /\ [][NextInit]_vars

\* ---------------------------------------------- specification: re-entrancy
\* process_events step by step, so that a callback can dispatch messages and
\* allocate identifiers before it returns.  A frame is a procedure of the
\* chain of hwnd that is running for message m: pos is its place in the
\* chain (past the end: the window procedure), left the number of callback
\* invocations it has still to finish.
Frame(hwnd, m, pos, pc, left) ==
    [hwnd |-> hwnd, m |-> m, pos |-> pos, pc |-> pc, left |-> left]
Top == stack[Len(stack)]
Pop == SubSeq(stack, 1, Len(stack) - 1)
Replace(fr) == [stack EXCEPT ![Len(stack)] = fr]
InCallback == stack # << >> /\ Top.pc = "callback"

ReMessages == {Message(WM_SIZE, 0, 0), Message(WM_CLOSE, 0, 0),
               Message(NWG_TRAY, 0, WM_RBUTTONUP)}

\* The native dispatcher delivers a message while no procedure is running.
DispatchOuter ==
    /\ ~panicked
    /\ stack = << >>
    /\ \E h \in windows, m \in ReMessages :
          stack' = <<Frame(h, m, 1, "enter", 0)>>
    /\ UNCHANGED <<winVars, chain, heap, queue, idVars, registered, trace, released,
                   lastOp, panicked,
                   pbVars>>

\* The callback sends a message to a window before it returns.
CallbackSends ==
    /\ ~panicked
    /\ InCallback
    /\ Len(stack) < MaxDepth
    /\ \E h \in windows, m \in ReMessages :
          stack' = Append(stack, Frame(h, m, 1, "enter", 0))
    /\ UNCHANGED <<winVars, chain, heap, queue, idVars, registered, trace, released,
                   lastOp, panicked,
                   pbVars>>

\* process_events is entered: Rc::from_raw, then the match, which makes
\* `left` invocations of the callback.
EnterProcessEvents ==
    /\ ~panicked
    /\ stack # << >>
    /\ Top.pc = "enter"
    /\ Top.pos <= Len(chain[Top.hwnd])
    /\ chain[Top.hwnd][Top.pos].proc = "process_events"
    /\ \E calls \in {match_msg(class, windows, bitmap, Top.hwnd, Top.m)} :
          stack' = Replace(Frame(Top.hwnd, Top.m, Top.pos,
                                 IF calls = << >> THEN "forget" ELSE "callback", Len(calls)))
    /\ released' = (released \/ heap[chain[Top.hwnd][Top.pos].data].released # 0)
    /\ UNCHANGED <<winVars, chain, heap, queue, idVars, registered, trace, lastOp, panicked,
                   pbVars>>

\* An invocation of the callback returns.
CallbackReturns ==
    /\ ~panicked
    /\ InCallback
    /\ stack' = Replace(Frame(Top.hwnd, Top.m, Top.pos,
                              IF Top.left = 1 THEN "forget" ELSE "callback", Top.left - 1))
    /\ UNCHANGED <<winVars, chain, heap, queue, idVars, registered, trace, released,
                   lastOp, panicked,
                   pbVars>>

\* mem::forget(callback)
ForgetCallback ==
    /\ ~panicked
    /\ stack # << >>
    /\ Top.pc = "forget"
    /\ heap' = forget_callback(heap, chain[Top.hwnd][Top.pos].data)
    /\ stack' = Replace(Frame(Top.hwnd, Top.m, Top.pos, "default", 0))
    /\ UNCHANGED <<winVars, chain, queue, idVars, registered, trace, released, lastOp,
                   panicked,
                   pbVars>>

\* DefSubclassProc(hwnd, msg, w, l), the tail of process_events: the next
\* procedure of the chain runs in its place.
DefSubclassProc ==
    /\ ~panicked
    /\ stack # << >>
    /\ Top.pc = "default"
    /\ stack' = Replace(Frame(Top.hwnd, Top.m, Top.pos + 1, "enter", 0))
    /\ UNCHANGED <<winVars, chain, heap, queue, idVars, registered, trace, released,
                   lastOp, panicked,
                   pbVars>>

\* The window procedure runs at the end of the chain and returns.
RunWndProc ==
    /\ ~panicked
    /\ stack # << >>
    /\ Top.pc = "enter"
    /\ Top.pos > Len(chain[Top.hwnd])
    /\ \E dr \in DefResults : \E r \in {WndProc(class, Top.hwnd, Top.m, dr)} :
          /\ visible' = visible \ r.hide
          /\ queue' = queue \o r.post
    /\ stack' = Pop
    /\ UNCHANGED <<windows, parent, class, bitmap, chain, heap, idVars, registered, trace,
                   released, lastOp, panicked,
                   pbVars>>

\* build_timer and build_notice are called by the application between
\* messages, or by the callback before it returns.
ReAllocTimer ==
    /\ stack = << >> \/ InCallback
    /\ \E p \in windows, stopped \in BOOLEAN, checked \in BOOLEAN :
          BuildTimer(p, stopped, checked)

ReAllocNotice ==
    /\ stack = << >> \/ InCallback
    /\ \E p \in windows, checked \in BOOLEAN : BuildNotice(p, checked)

\* A toolkit window with a button, a handler bound to the window.
InitReentrant == InitClassify /\ class[2] = "Button"

NextReentrant ==
    \/ DispatchOuter
    \/ CallbackSends
    \/ EnterProcessEvents
    \/ CallbackReturns
    \/ ForgetCallback
    \/ DefSubclassProc
    \/ RunWndProc
    \/ ReAllocTimer
    \/ ReAllocNotice

SpecReentrant == InitReentrant /\ [][NextReentrant]_vars

\* ------------------------------------------- specification: progress bar
\* A toolkit window exists.  The application builds a progress bar with any
\* configuration, with or without a parent, and calls the methods of the
\* control it built and of controls holding any other handle.
PosUnit == DefaultBar.hi \div 2
Positions == {PosUnit * i : i \in 0 .. MaxPos}
Steps == {PosUnit, 2 * PosUnit}
Builders ==
    {ProgressBarBuilder(st, stp, p, lo, hi, par) :
        st \in ProgressBarStates, stp \in Steps, p \in Positions,
        lo \in Positions, hi \in Positions,
        par \in {None} \cup {Some(hd) : hd \in WindowHandles}}

Method(name, a, b) == [name |-> name, a |-> a, b |-> b]
Methods ==
    {Method(n, 0, 0) : n \in {"state", "advance", "step", "pos", "range"} \cup HelperMethods}
    \cup {Method("set_state", st, 0) : st \in ProgressBarStates}
    \cup {Method("advance_delta", PosUnit, 0)}
    \cup {Method("set_step", stp, 0) : stp \in Steps}
    \cup {Method("set_pos", p, 0) : p \in Positions}
    \cup {Method("set_range", lo, hi) : lo \in Positions, hi \in Positions}

Invoke(env, b, self, c) ==
    CASE c.name = "state" -> ProgressBar_state(env, b, self)
      [] c.name = "set_state" -> ProgressBar_set_state(env, b, self, c.a)
      [] c.name = "advance" -> ProgressBar_advance(env, b, self)
      [] c.name = "advance_delta" -> ProgressBar_advance_delta(env, b, self, c.a)
      [] c.name = "step" -> ProgressBar_step(env, b, self)
      [] c.name = "set_step" -> ProgressBar_set_step(env, b, self, c.a)
      [] c.name = "pos" -> ProgressBar_pos(env, b, self)
      [] c.name = "set_pos" -> ProgressBar_set_pos(env, b, self, c.a)
      [] c.name = "range" -> ProgressBar_range(env, b, self)
      [] c.name = "set_range" -> ProgressBar_set_range(env, b, self, c.a, c.b)
      [] OTHER -> window_method(env, b, self, c.name)

Controls == {out} \cup {ProgressBar(hd) : hd \in WindowHandles \cup OtherHandles}

\* The application builds into a control that is not bound yet.
BuildProgressBar ==
    /\ ~panicked
    /\ FreeHwnds # {}
    /\ ControlHandle_blank(out.handle)
    /\ \E cfg \in Builders, outcome \in {"Ok", "WindowCreationFailed", "GetModuleHandleFailed"} :
        /\ cfg.range[1] < cfg.range[2]
        /\ \E r \in {ProgressBarBuilder_build(Env(None, 0), bars, out, cfg, FreeHwnds, outcome)} :
            /\ out' = r.out
            /\ bars' = r.bars
            /\ sent' = r.sent
            /\ IF r.created = NULL
               THEN UNCHANGED <<windows, parent, class, visible>>
               ELSE /\ windows' = windows \cup {r.created}
                    /\ parent' = [parent EXCEPT ![r.created] =
                                    IF cfg.parent.some THEN cfg.parent.r.hwnd ELSE NULL]
                    /\ class' = [class EXCEPT ![r.created] = "msctls_progress32"]
                    /\ visible' = visible \cup {r.created}
            /\ lastOp' = Op("build", r.created, r.out.handle, 0, r.res, cfg, NoMessage)
    /\ trace' = << >>
    /\ UNCHANGED <<bitmap, chain, heap, queue, idVars, registered, stack, released,
                   panicked>>

CallMethod ==
    /\ ~panicked
    /\ \E self \in Controls, c \in Methods :
        /\ c.name = "set_range" => c.a < c.b
        /\ \E r \in {Invoke(Env(None, 0), bars, self, c)} :
            /\ bars' = r.bars
            /\ sent' = r.sent
            /\ panicked' = (r.res # "Ok")
            /\ lastOp' = Op(c.name, NULL, self.handle, 0, r.res, r.ret, NoMessage)
    /\ trace' = << >>
    /\ UNCHANGED <<winVars, chain, heap, queue, idVars, registered, stack, released, out>>

NextProgress == BuildProgressBar \/ CallMethod

SpecProgress == InitAlloc /\ [][NextProgress]_vars

\* --------------------------------------- specification: handle round trip
\* Timers and notices are built on the windows of a hooked tree; a running
\* timer ticks (WM_TIMER with its id) and a notice is raised (NOTICE_MESSAGE
\* with its id) on the window it was built on.
Ids(ids) == {ids[i] : i \in DOMAIN ids}

Tick ==
    \E h \in windows, dr \in DefResults : \E ans \in Answers({h}) :
        \E id \in {n \in Ids(timers) : <<h, n>> \in running} :
            Deliver(h, Message(WM_TIMER, id, 0), ans, dr, TRUE)

Notified ==
    \E h \in windows, dr \in DefResults : \E ans \in Answers({h}) :
        \E id \in Ids(notices) :
            Deliver(h, Message(NOTICE_MESSAGE, id, 0), ans, dr, TRUE)

NextRoundTrip == AllocTimer \/ AllocNotice \/ Tick \/ Notified

SpecRoundTrip == InitReentrant /\ [][NextRoundTrip]_vars

\* ------------------------------------------------ properties: lifetime
HookedWindows(c) == {x[1] : x \in HooksOf(chain, c)}
Subtree(root) == {root} \cup Descendants(parent, windows, root)

\* C1: right after bind_event_handler has been installed on a root window
\* with k descendants, exactly k+1 hooks reference the new callback, one on
\* the root and one on each descendant, and its strong count is k+1.
C1_InstallCountsHooks ==
    (lastOp.op = "bind_event_handler" /\ lastOp.res = "Ok") =>
        LET c == lastOp.cb
            k == Cardinality(Descendants(parent, windows, lastOp.hwnd))
        IN  /\ heap[c].kind = "Rc"
            /\ Cardinality(HooksOf(chain, c)) = k + 1
            /\ HookedWindows(c) = Subtree(lastOp.hwnd)
            /\ \A h \in Subtree(lastOp.hwnd) :
                  Cardinality({x \in HooksOf(chain, c) : x[1] = h}) = 1
            /\ heap[c].rc = k + 1
            /\ heap[c].released = 0

\* An interceptor has just been installed on a root that has a descendant.
C1_Witness ==
    /\ lastOp.op = "bind_event_handler"
    /\ lastOp.res = "Ok"
    /\ Descendants(parent, windows, lastOp.hwnd) # {}
    /\ heap[lastOp.cb].rc = 2

\* C2: every hook's reference to the shared callback is given back when the
\* hook's window is destroyed: the strong count of an installed callback is
\* the number of hooks that still reference it, and once none is left the
\* callback has been released exactly once.
C2_CountFollowsHooks ==
    ~panicked =>
        \A c \in DOMAIN heap :
            heap[c].kind = "Rc" =>
                /\ heap[c].rc = Cardinality(HooksOf(chain, c))
                /\ (HooksOf(chain, c) = {} => heap[c].released = 1)

\* C3: the shared callback is never released while a hook still holds its
\* pointer: its strong count is at least the number of hooks referencing
\* it, and no dispatch has invoked a released callback.
C3_NotReleasedWhileHooked ==
    /\ ~released
    /\ \A c \in DOMAIN heap :
          heap[c].kind = "Rc" =>
              /\ heap[c].rc >= Cardinality(HooksOf(chain, c))
              /\ (HooksOf(chain, c) # {} => heap[c].released = 0)

\* A message has just been dispatched while a callback, installed on a root
\* and its child, is still referenced by one hook after the other hooked
\* window was destroyed.
C3_Witness ==
    /\ lastOp.op = "dispatch"
    /\ \E c \in DOMAIN heap :
          /\ heap[c].kind = "Rc"
          /\ Cardinality(HooksOf(chain, c)) = 1
          /\ heap[c].rc = 2

\* C7: bind_raw_event_handler with a handle that is no window handle panics
\* and installs nothing; with a window handle it installs one hook, on that
\* window, and leaves the chain of every other window as it was.
C7_RawInstallOneWindowOrPanic ==
    [][lastOp'.op = "bind_raw_event_handler" =>
        IF lastOp'.handle.tag = "Hwnd"
        THEN /\ lastOp'.res = "Ok"
             /\ ~panicked'
             /\ HooksOf(chain', lastOp'.cb) \subseteq {lastOp'.hwnd} \X (1 .. Len(heap'))
             /\ Cardinality(HooksOf(chain', lastOp'.cb)) = 1
             /\ \A x \in HooksOf(chain', lastOp'.cb) :
                   chain'[x[1]][x[2]].proc = "process_raw_events"
             /\ \A w \in Hwnds \ {lastOp'.hwnd} : chain'[w] = chain[w]
        ELSE /\ lastOp'.res = "panic"
             /\ panicked'
             /\ chain' = chain
             /\ heap' = heap]_vars

\* A raw interceptor sits on a window that has a child, and the child has
\* no hook.
C7_Witness ==
    /\ lastOp.op = "bind_raw_event_handler"
    /\ lastOp.res = "Ok"
    /\ \E w \in windows : parent[w] = lastOp.hwnd /\ chain[w] = << >>

\* C8: the callback of a raw interceptor is released exactly once when its
\* hook goes away with its window, and not before.
C8_RawReleasedWithHook ==
    ~panicked =>
        \A c \in DOMAIN heap :
            heap[c].kind = "Box" =>
                IF HooksOf(chain, c) = {} THEN heap[c].released = 1
                ELSE heap[c].released = 0

\* ------------------------------------------------ properties: dispatch
\* The last step delivered lastOp.m to window lastOp.hwnd and trace holds
\* what the delivery did.
Recorded == lastOp.op = "dispatch" /\ lastOp.hwnd # NULL

StepsAt(i, o) == {j \in DOMAIN trace : trace[j].pos = i /\ trace[j].op = o}
Reached(i) == \E j \in DOMAIN trace : trace[j].pos = i
\* The hooks of the window the message was delivered to that it reached.
HooksReached(proc) ==
    {i \in DOMAIN chain[lastOp.hwnd] : chain[lastOp.hwnd][i].proc = proc /\ Reached(i)}
\* The value returned at position i of the chain (by a hook, or by the
\* window procedure at the end of it).
RetAt(i) ==
    trace[CHOOSE j \in DOMAIN trace :
             trace[j].pos = i /\ trace[j].op \in {"return", "WndProc"}].val
Before(A, B) == \A a \in A, b \in B : a < b

RecognizedMessages ==
    {WM_NOTIFY, WM_MENUCOMMAND, WM_COMMAND, WM_CONTEXTMENU, NWG_TRAY, WM_TIMER, WM_SIZE,
     WM_MOVE, WM_HSCROLL, WM_VSCROLL, WM_MOUSEMOVE, WM_LBUTTONUP, WM_LBUTTONDOWN,
     WM_RBUTTONUP, WM_RBUTTONDOWN, WM_PAINT, NOTICE_MESSAGE, NWG_INIT, WM_CLOSE}
CommandClasses == {"Button", "Edit", "ComboBox", "Static", "ListBox"}
NotifyClasses == {"SysDateTimePick32", "SysTabControl32", "msctls_trackbar32"}
TrayEvents ==
    {NIN_BALLOONSHOW, NIN_BALLOONHIDE, NIN_BALLOONTIMEOUT, NIN_BALLOONUSERCLICK,
     WM_LBUTTONUP, WM_LBUTTONDOWN, WM_RBUTTONUP, WM_RBUTTONDOWN, WM_MOUSEMOVE}

\* A message for which the hook has no event: a code it does not recognize,
\* a command or notification from a control whose class has no table, a tray
\* sub-event it does not know.
NoEvent(m) ==
    \/ m.msg \notin RecognizedMessages
    \/ m.msg = WM_COMMAND /\ GetClassNameW(class, windows, m.l) \notin CommandClasses
    \/ /\ m.msg = WM_NOTIFY
       /\ m.hdr.code # TTN_GETDISPINFOW
       /\ GetClassNameW(class, windows, m.hdr.hwndFrom) \notin NotifyClasses
    \/ m.msg = NWG_TRAY /\ LOWORD(m.l) \notin TrayEvents

TrayRightUp(m) == m.msg = NWG_TRAY /\ LOWORD(m.l) = WM_RBUTTONUP

\* C4 as claimed: every message delivered to a subtree hook invokes the
\* callback exactly once and then forwards once to the default handler.
C4_ExactlyOneCallback ==
    Recorded =>
        \A i \in HooksReached("process_events") :
            /\ Cardinality(StepsAt(i, "callback")) = 1
            /\ Cardinality(StepsAt(i, "DefSubclassProc")) = 1
            /\ Before(StepsAt(i, "callback"), StepsAt(i, "DefSubclassProc"))

\* C4 as amended: a message delivered to a subtree hook invokes the callback
\* twice for a tray right-button-up, not at all when the hook has no event
\* for it, once otherwise; then it is forwarded once to the default handler.
C4_CallbacksThenOneDefault ==
    Recorded =>
        \A i \in HooksReached("process_events") :
            /\ Cardinality(StepsAt(i, "callback")) =
                  (IF TrayRightUp(lastOp.m) THEN 2 ELSE IF NoEvent(lastOp.m) THEN 0 ELSE 1)
            /\ Cardinality(StepsAt(i, "DefSubclassProc")) = 1
            /\ Before(StepsAt(i, "callback"), StepsAt(i, "DefSubclassProc"))

\* A tray right-button-up went through a subtree hook: two invocations.
C4_Witness ==
    /\ Recorded
    /\ TrayRightUp(lastOp.m)
    /\ \E i \in HooksReached("process_events") : Cardinality(StepsAt(i, "callback")) = 2

\* C5: the callback of a subtree hook cannot suppress default processing:
\* the default subclass handler is called exactly once, after every callback
\* invocation for the message, and the hook returns the handler's result.
C5_DefaultAlwaysForwarded ==
    Recorded =>
        \A i \in HooksReached("process_events") :
            /\ Cardinality(StepsAt(i, "DefSubclassProc")) = 1
            /\ Before(StepsAt(i, "callback"), StepsAt(i, "DefSubclassProc"))
            /\ Before(StepsAt(i, "DefSubclassProc"), {j \in DOMAIN trace : trace[j].pos > i})
            /\ RetAt(i) = RetAt(i + 1)
            /\ (i = 1 => lastOp.ret = RetAt(i + 1))

\* A close request went through a subtree hook whose callback was told of
\* it, and reached the window procedure, which hid the window.
C5_Witness ==
    /\ Recorded
    /\ lastOp.m.msg = WM_CLOSE
    /\ \E i \in HooksReached("process_events") :
          \E j \in StepsAt(i, "callback") : trace[j].event = "OnWindowClose"
    /\ lastOp.hwnd \notin visible

\* C6: a raw hook invokes its callback once; with Some(r) it returns r and
\* does not call the default handler, with None it calls the default handler
\* once and returns its result.
C6_RawExactlyOneBranch ==
    Recorded =>
        \A i \in HooksReached("process_raw_events") :
            /\ Cardinality(StepsAt(i, "raw_callback")) = 1
            /\ \A j \in StepsAt(i, "raw_callback") :
                  IF trace[j].event = "Some"
                  THEN /\ StepsAt(i, "DefSubclassProc") = {}
                       /\ \A n \in DOMAIN trace : trace[n].pos <= i
                       /\ RetAt(i) = trace[j].val
                       /\ (i = 1 => lastOp.ret = trace[j].val)
                  ELSE /\ Cardinality(StepsAt(i, "DefSubclassProc")) = 1
                       /\ Before({j}, StepsAt(i, "DefSubclassProc"))
                       /\ Before(StepsAt(i, "DefSubclassProc"),
                                 {n \in DOMAIN trace : trace[n].pos > i})
                       /\ RetAt(i) = RetAt(i + 1)
                       /\ (i = 1 => lastOp.ret = RetAt(i + 1))

\* A raw hook, installed over another hook, answered Some(2): 2 went back
\* to the dispatcher and the hook under it was not called.
C6_Witness ==
    /\ Recorded
    /\ Len(chain[lastOp.hwnd]) = 2
    /\ chain[lastOp.hwnd][1].proc = "process_raw_events"
    /\ \E j \in StepsAt(1, "raw_callback") : trace[j].event = "Some"
    /\ lastOp.ret = 2
    /\ ~Reached(2)

\* ---------------------------------------------- properties: allocation
StrictlyIncreasing(ids) == \A i, j \in DOMAIN ids : i < j => ids[i] < ids[j]

\* C9: the ids a counter has issued start at 1, are strictly increasing and
\* never repeat, whatever the number of allocations.
C9_IdsNeverRepeat ==
    /\ (timers # << >> => timers[1] = 1)
    /\ (notices # << >> => notices[1] = 1)
    /\ StrictlyIncreasing(timers)
    /\ StrictlyIncreasing(notices)

\* ---------------------------------------------- properties: classifier
\* The documented table: message kind, class of the originating control,
\* sub-code, event.
ClassifierTable ==
    {<<WM_COMMAND, "Button", BN_CLICKED, "OnButtonClick">>,
     <<WM_COMMAND, "Button", BN_DBLCLK, "OnButtonDoubleClick">>,
     <<WM_COMMAND, "Edit", EN_CHANGE, "OnTextInput">>,
     <<WM_COMMAND, "ComboBox", CBN_CLOSEUP, "OnComboBoxClosed">>,
     <<WM_COMMAND, "ComboBox", CBN_DROPDOWN, "OnComboBoxDropdown">>,
     <<WM_COMMAND, "ComboBox", CBN_SELCHANGE, "OnComboxBoxSelection">>,
     <<WM_COMMAND, "ListBox", LBN_SELCHANGE, "OnListBoxSelect">>,
     <<WM_COMMAND, "ListBox", LBN_DBLCLK, "OnListBoxDoubleClick">>,
     <<WM_NOTIFY, "SysDateTimePick32", DTN_CLOSEUP, "OnDatePickerClosed">>,
     <<WM_NOTIFY, "SysDateTimePick32", DTN_DROPDOWN, "OnDatePickerDropdown">>,
     <<WM_NOTIFY, "SysDateTimePick32", DTN_DATETIMECHANGE, "OnDatePickerChanged">>,
     <<WM_NOTIFY, "SysTabControl32", TCN_SELCHANGE, "TabsContainerChanged">>,
     <<WM_NOTIFY, "SysTabControl32", TCN_SELCHANGING, "TabsContainerChanging">>,
     <<WM_NOTIFY, "msctls_trackbar32", NM_RELEASEDCAPTURE, "TrackBarUpdated">>}

\* The last message is the notification of table row t from control h.
IsRow(t, h) ==
    /\ Recorded
    /\ class[h] = t[2]
    /\ lastOp.m = (IF t[1] = WM_COMMAND THEN CommandMessage(h, t[3])
                                        ELSE NotifyMessage(h, h, t[3]))

\* The events the hook at position i passed to its callback, in order.
EventsAt(i) ==
    LET cb == SelectSeq(trace, LAMBDA st : st.pos = i /\ st.op = "callback")
    IN  [n \in DOMAIN cb |-> cb[n].event]

\* C10: a notification from a control of class C with a sub-code s of C's
\* table is classified to the documented event, the same every time.
C10_ClassifierTable ==
    \A t \in ClassifierTable, h \in windows :
        IsRow(t, h) =>
            \A i \in HooksReached("process_events") : EventsAt(i) = <<t[4]>>

\* A combo box has told its hooked parent that its list closed.
C10_Witness ==
    /\ \E t \in ClassifierTable, h \in windows :
          /\ IsRow(t, h)
          /\ t[3] = CBN_CLOSEUP
    /\ HooksReached("process_events") # {}
    /\ \A i \in HooksReached("process_events") : EventsAt(i) = <<"OnComboBoxClosed">>

\* The table of the Static class: bitmap content held, sub-code, event.
StaticTable ==
    {<<TRUE, STN_CLICKED, "OnImageFrameClick">>,
     <<TRUE, STN_DBLCLK, "OnImageFrameDoubleClick">>,
     <<FALSE, STN_CLICKED, "OnLabelClick">>,
     <<FALSE, STN_DBLCLK, "OnLabelDoubleClick">>}

\* The sub-codes class c has a row for, in messages of the given kind.
TableCodes(kind, c) ==
    {t[3] : t \in {u \in ClassifierTable : u[1] = kind /\ u[2] = c}}
    \cup (IF kind = WM_COMMAND /\ c = "Static" THEN {t[2] : t \in StaticTable} ELSE {})

\* The last message is a notification of the given kind from control h,
\* with a sub-code that is in no row of the table of h's class; the class
\* has a table for this kind of message.  A tooltip-text request is not a
\* row of any table and does not reach one.
IsUnmapped(kind, h, code) ==
    /\ Recorded
    /\ TableCodes(kind, class[h]) # {}
    /\ code \notin TableCodes(kind, class[h])
    /\ lastOp.m = (IF kind = WM_COMMAND THEN CommandMessage(h, code)
                                        ELSE NotifyMessage(h, h, code))
    /\ (kind = WM_NOTIFY => code # TTN_GETDISPINFOW)

\* C11: a sub-code that is not in the table of the originating control's
\* class is classified to Unknown, and the dispatch does not fail.
C11_UnmappedIsUnknown ==
    \A h \in windows, code \in CommandCodes \cup NotifyCodes, kind \in {WM_COMMAND, WM_NOTIFY} :
        IsUnmapped(kind, h, code) =>
            /\ \A i \in HooksReached("process_events") : EventsAt(i) = <<"Unknown">>
            /\ lastOp.res = "Ok"
            /\ ~panicked

\* An edit control has told its hooked parent that it got the focus, which
\* its table has no row for.
C11_Witness ==
    /\ \E h \in windows : class[h] = "Edit" /\ IsUnmapped(WM_COMMAND, h, EN_SETFOCUS)
    /\ HooksReached("process_events") # {}
    /\ \A i \in HooksReached("process_events") : EventsAt(i) = <<"Unknown">>

\* C12: a click or double click from a Static control is classified by the
\* content the control holds when the message is dispatched: image-frame
\* events with a bitmap, label events without.
C12_StaticLiveState ==
    \A h \in windows, t \in StaticTable :
        (/\ Recorded
         /\ class[h] = "Static"
         /\ lastOp.m = CommandMessage(h, t[2])
         /\ (h \in bitmap) = t[1])
        => \A i \in HooksReached("process_events") : EventsAt(i) = <<t[3]>>

\* A Static control was given a bitmap after the handler was bound, and its
\* click was reported as an image-frame click.
C12_Witness ==
    /\ Recorded
    /\ \E h \in bitmap : class[h] = "Static" /\ lastOp.m = CommandMessage(h, STN_CLICKED)
    /\ HooksReached("process_events") # {}
    /\ \A i \in HooksReached("process_events") : EventsAt(i) = <<"OnImageFrameClick">>

\* ------------------------------------------- properties: unclassified input
\* The last message is a command or a notification with a sub-code that the
\* table of the originating control's class has no row for.
UnmappedSubcode ==
    \E h \in windows, code \in CommandCodes \cup NotifyCodes, kind \in {WM_COMMAND, WM_NOTIFY} :
        IsUnmapped(kind, h, code)

Unclassified == Recorded /\ (NoEvent(lastOp.m) \/ UnmappedSubcode)

ForwardedOnce(i) ==
    /\ Cardinality(StepsAt(i, "DefSubclassProc")) = 1
    /\ Before(StepsAt(i, "callback"), StepsAt(i, "DefSubclassProc"))

\* C13 as claimed: every unclassified message reaches the callback as the
\* Unknown event and is then forwarded to default handling, without a panic.
C13_UnclassifiedIsUnknownEvent ==
    Unclassified =>
        /\ \A i \in HooksReached("process_events") :
              EventsAt(i) = <<"Unknown">> /\ ForwardedOnce(i)
        /\ lastOp.res = "Ok"
        /\ ~panicked

\* C13 as amended: an unclassified message is forwarded to default handling
\* without a panic; the callback gets the Unknown event only for a sub-code
\* missing from the table of a class that has one, and is not invoked at all
\* for an unrecognized message code or a class without a table.
C13_UnclassifiedIsForwarded ==
    Unclassified =>
        /\ \A i \in HooksReached("process_events") :
              /\ EventsAt(i) = (IF NoEvent(lastOp.m) THEN << >> ELSE <<"Unknown">>)
              /\ ForwardedOnce(i)
        /\ lastOp.res = "Ok"
        /\ ~panicked

\* A key press, which the hook has no arm for, went through a subtree hook:
\* no callback invocation, one forward.
C13_Witness ==
    /\ Recorded
    /\ lastOp.m = Message(WM_KEYDOWN, 0, 0)
    /\ HooksReached("process_events") # {}
    /\ \A i \in HooksReached("process_events") : EventsAt(i) = << >> /\ ForwardedOnce(i)

\* ------------------------------------------------- properties: handles
OwnHandleMessages ==
    {WM_SIZE, WM_MOVE, WM_PAINT, WM_MOUSEMOVE, WM_LBUTTONUP, WM_LBUTTONDOWN,
     WM_RBUTTONUP, WM_RBUTTONDOWN, NWG_INIT, WM_CLOSE}

\* The handle the callback of a hook on window hwnd is to get for message m.
OriginOf(hwnd, m) ==
    CASE m.msg = WM_COMMAND -> Hwnd(m.l)
      [] m.msg = WM_NOTIFY -> Hwnd(m.hdr.hwndFrom)
      [] m.msg \in {WM_HSCROLL, WM_VSCROLL} -> Hwnd(m.l)
      [] m.msg = WM_CONTEXTMENU -> Hwnd(m.w)
      [] m.msg = WM_MENUCOMMAND -> MenuItem(m.l, GetMenuItemID(m.l, m.w))
      [] m.msg = WM_TIMER -> Timer(hwnd, m.w)
      [] m.msg = NOTICE_MESSAGE -> Notice(hwnd, m.w)
      [] m.msg = NWG_TRAY -> SystemTray(hwnd)
      [] m.msg \in OwnHandleMessages -> Hwnd(hwnd)

HasOrigin(m) ==
    \/ m.msg \in {WM_COMMAND, WM_HSCROLL, WM_VSCROLL, WM_CONTEXTMENU, WM_MENUCOMMAND,
                  WM_TIMER, NOTICE_MESSAGE, NWG_TRAY}
    \/ m.msg \in OwnHandleMessages
    \/ m.msg = WM_NOTIFY /\ m.hdr.code # TTN_GETDISPINFOW

\* C14: the handle passed to the callback names the originating object: the
\* child control of a command or notification, the scrolling control, the
\* target of a context menu, the menu item, the timer, notice or tray icon
\* of the hooked window; the hooked window itself only for resize, move,
\* paint, mouse, init and close.
C14_MostSpecificHandle ==
    (Recorded /\ HasOrigin(lastOp.m)) =>
        \A i \in HooksReached("process_events") : \A j \in StepsAt(i, "callback") :
            trace[j].handle = OriginOf(lastOp.hwnd, lastOp.m)

\* A scroll message from a child control reached the callback of the hook on
\* its parent with the child's handle.
C14_Witness ==
    /\ Recorded
    /\ lastOp.m.msg = WM_HSCROLL
    /\ lastOp.m.l \in windows \ {lastOp.hwnd}
    /\ \E i \in HooksReached("process_events") : \E j \in StepsAt(i, "callback") :
          trace[j].handle = Hwnd(lastOp.m.l)

\* ------------------------------------------- properties: late children
CallbackSteps(tr) == {j \in DOMAIN tr : tr[j].op = "callback"}

\* C15: a window built after an interceptor was installed gets no hook, the
\* hooks and the count of every callback stay as they were, and a message
\* delivered to a window without a hook invokes no callback.
C15_SnapshotAtInstall ==
    [][/\ (lastOp'.op = "build_hwnd_control" /\ lastOp'.res = "Ok") =>
             /\ lastOp'.hwnd \notin windows
             /\ chain'[lastOp'.hwnd] = << >>
             /\ \A w \in windows : chain'[w] = chain[w]
             /\ \A c \in DOMAIN heap :
                   Cardinality(HooksOf(chain', c)) = Cardinality(HooksOf(chain, c))
             /\ heap' = heap
       /\ (lastOp'.op = "dispatch" /\ lastOp'.hwnd # NULL /\ chain[lastOp'.hwnd] = << >>) =>
             /\ CallbackSteps(trace') = {}
             /\ heap' = heap]_vars

\* Window 2 was built under window 1 after the handler was bound to window 1:
\* it has no hook, the callback still counts one reference, and a click
\* delivered to window 2 invoked nothing.
C15_Witness ==
    /\ windows = {1, 2}
    /\ parent[2] = 1
    /\ Len(chain[1]) = 1
    /\ chain[1][1].proc = "process_events"
    /\ chain[2] = << >>
    /\ heap[chain[1][1].data].rc = 1
    /\ Recorded
    /\ lastOp.hwnd = 2
    /\ lastOp.m = Message(WM_LBUTTONDOWN, 0, 0)
    /\ CallbackSteps(trace) = {}

\* ------------------------------------------- properties: event coverage
\* The last message is one the hook has an event for.
Classified == Recorded /\ ~NoEvent(lastOp.m)

\* The cells of the callbacks bound with bind_event_handler that have a
\* hook on window h.
EventCells(h) ==
    {chain[h][i].data : i \in {k \in DOMAIN chain[h] : chain[h][k].proc = "process_events"}}

\* The interceptors that have a hook on some window whose subtree holds h.
TreeCells(h) == UNION {EventCells(root) : root \in {r \in windows : h \in Subtree(r)}}

\* A raw hook above position i supplied a result for the last message.
Intercepted(i) ==
    \E k \in 1 .. (i - 1) :
        /\ chain[lastOp.hwnd][k].proc = "process_raw_events"
        /\ \E j \in StepsAt(k, "raw_callback") : trace[j].event = "Some"

\* The events the callback is to get for the last message.
EventsOf(m) ==
    CASE m.msg = WM_SIZE -> <<"OnResize">>
      [] m.msg = WM_LBUTTONDOWN -> <<"MousePressLeftDown">>
      [] m.msg = WM_COMMAND /\ m = CommandMessage(m.l, BN_CLICKED)
                            /\ GetClassNameW(class, windows, m.l) = "Button" ->
            <<"OnButtonClick">>

\* C16 as claimed: a classified message delivered to any window of a tree
\* invokes the callback of every interceptor installed on the tree.
C16_EveryEventOfTheTree ==
    Classified =>
        \A c \in TreeCells(lastOp.hwnd) : \E j \in CallbackSteps(trace) : trace[j].cb = c

\* C16 as amended: installing hooks every window of the tree as it is then;
\* afterwards a classified message delivered to a window invokes, with the
\* event of the message, the callback of each hook the window carries that
\* no raw hook above it kept the message from, and no other callback.
C16_EventsOfHookedWindows ==
    /\ (lastOp.op = "bind_event_handler" /\ lastOp.res = "Ok") =>
          \A h \in Subtree(lastOp.hwnd) : lastOp.cb \in EventCells(h)
    /\ Classified =>
          /\ \A i \in DOMAIN chain[lastOp.hwnd] :
                chain[lastOp.hwnd][i].proc = "process_events" =>
                    IF Intercepted(i)
                    THEN StepsAt(i, "callback") = {}
                    ELSE /\ EventsAt(i) = EventsOf(lastOp.m)
                         /\ \A j \in StepsAt(i, "callback") :
                               trace[j].cb = chain[lastOp.hwnd][i].data
          /\ \A j \in CallbackSteps(trace) :
                /\ trace[j].pos \in DOMAIN chain[lastOp.hwnd]
                /\ chain[lastOp.hwnd][trace[j].pos].proc = "process_events"

\* A click of button 2, which was there when the handler was bound to
\* window 1, was delivered to window 1 and reached the callback.
C16_Witness ==
    /\ Classified
    /\ lastOp.hwnd = 1
    /\ lastOp.m = CommandMessage(2, BN_CLICKED)
    /\ EventCells(1) # {}
    /\ EventCells(1) = EventCells(2)
    /\ \A c \in EventCells(1) : \E j \in CallbackSteps(trace) :
          trace[j].cb = c /\ trace[j].event = "OnButtonClick"

\* --------------------------------------------- properties: registration
Registration == lastOp.op \in {"build_sysclass", "init_window_class"}

\* C17: registering a name that is already registered succeeds and changes
\* nothing; a refused registration of a new name is SystemClassCreationFailed;
\* without a module handle the result is GetModuleHandleFailed and no
\* registration is attempted; success leaves the name registered.
C17_RegistrationIdempotent ==
    Registration =>
        /\ (lastOp.hmod = NULL) = (lastOp.res = "GetModuleHandleFailed")
        /\ (lastOp.hmod = NULL) = ~lastOp.attempted
        /\ (lastOp.attempted /\ lastOp.existed) => lastOp.res = "Ok"
        /\ (lastOp.attempted /\ ~lastOp.existed /\ lastOp.refused) =>
              /\ lastOp.res = "SystemClassCreationFailed"
              /\ lastOp.class_name \notin registered
        /\ (lastOp.attempted /\ ~lastOp.existed /\ ~lastOp.refused) => lastOp.res = "Ok"
        /\ lastOp.res = "Ok" => lastOp.class_name \in registered
        /\ lastOp.existed => lastOp.class_name \in registered

\* The base class was registered again while it was registered already.
C17_Witness ==
    /\ lastOp.op = "init_window_class"
    /\ lastOp.existed
    /\ lastOp.attempted
    /\ lastOp.res = "Ok"

\* ---------------------------------------------------- properties: close
\* The steps of the window procedure in a trace, and whether a raw hook
\* supplied a result in it.
BaseSteps(tr) == {j \in DOMAIN tr : tr[j].op = "WndProc"}
RawSupplied(tr) == \E j \in DOMAIN tr : tr[j].op = "raw_callback" /\ tr[j].event = "Some"

\* C18: a close request delivered to a window of the base class leaves the
\* window and its hooks in place; the base procedure, which the request
\* reaches unless a raw hook supplied a result, hides the window and
\* returns 0 instead of the default window procedure's result.
C18_CloseOnlyHides ==
    [][(/\ lastOp'.op = "dispatch"
        /\ lastOp'.hwnd # NULL
        /\ lastOp'.m.msg = WM_CLOSE
        /\ class[lastOp'.hwnd] = "NativeWindowsGuiWindow") =>
            /\ windows' = windows
            /\ lastOp'.hwnd \in windows'
            /\ parent' = parent
            /\ class' = class
            /\ chain' = chain
            /\ RawSupplied(trace') = (BaseSteps(trace') = {})
            /\ \A j \in BaseSteps(trace') : trace'[j].val = 0
            /\ BaseSteps(trace') # {} =>
                  /\ lastOp'.hwnd \notin visible'
                  /\ lastOp'.ret = 0]_vars

\* A close request was delivered to a base-class window without any hook:
\* the window is there, hidden, and 0 was returned.
C18_Witness ==
    /\ Recorded
    /\ lastOp.m.msg = WM_CLOSE
    /\ class[lastOp.hwnd] = "NativeWindowsGuiWindow"
    /\ chain[lastOp.hwnd] = << >>
    /\ lastOp.hwnd \in windows \ visible
    /\ lastOp.ret = 0

\* ------------------------------------------- properties: initialization
InitSteps(tr) == {j \in CallbackSteps(tr) : tr[j].event = "OnInit"}

\* C19: building a window of the base class posts one initialization
\* message for it and invokes no callback; no other step posts one; the
\* callback gets the init event only when the pump dispatches that message,
\* later, through a hook on the window, once for each hook.
C19_InitIsPosted ==
    [][/\ IF lastOp'.op = "build_hwnd_control" /\ lastOp'.res = "Ok"
          THEN /\ lastOp'.hwnd \notin windows
               /\ queue' = (IF class'[lastOp'.hwnd] = "NativeWindowsGuiWindow"
                            THEN Append(queue, <<lastOp'.hwnd, NWG_INIT>>)
                            ELSE queue)
               /\ CallbackSteps(trace') = {}
          ELSE queue' = queue \/ (queue # << >> /\ queue' = Tail(queue))
       /\ InitSteps(trace') # {} =>
             /\ lastOp'.op = "dispatch"
             /\ queue # << >>
             /\ Head(queue) = <<lastOp'.hwnd, NWG_INIT>>
             /\ queue' = Tail(queue)
             /\ \A j \in InitSteps(trace') :
                   /\ trace'[j].pos \in DOMAIN chain[lastOp'.hwnd]
                   /\ trace'[j].handle = Hwnd(lastOp'.hwnd)
             /\ \A i \in DOMAIN chain[lastOp'.hwnd] :
                   Cardinality({j \in InitSteps(trace') : trace'[j].pos = i}) = 1]_vars

\* The pump has dispatched the initialization message of a hooked window:
\* its callback got the init event, and no such message is left for it.
C19_Witness ==
    /\ Recorded
    /\ lastOp.m.msg = NWG_INIT
    /\ InitSteps(trace) # {}
    /\ \A n \in DOMAIN queue : queue[n] # <<lastOp.hwnd, NWG_INIT>>

\* ----------------------------------------------- properties: re-entrancy
AllDistinct(ids) == \A i, j \in DOMAIN ids : i # j => ids[i] # ids[j]

\* Whatever is running, every callback counts as many references as it has
\* hooks and has not been released.
ReentrantCountKept ==
    \A c \in DOMAIN heap :
        /\ heap[c].rc = Cardinality(HooksOf(chain, c))
        /\ heap[c].released = 0
        /\ ~released

\* The identifier a callback allocates before it returns differs from every
\* identifier its counter has issued, inside or outside the dispatch.
FreshInCallback(ids, ids2) ==
    (InCallback /\ Len(ids2) > Len(ids)) =>
        \A i \in DOMAIN ids : ids[i] # ids2[Len(ids2)]

\* C20: with callbacks that dispatch messages and allocate identifiers
\* before they return, the reference count of the shared callback stays at
\* the number of its hooks at every step of the nesting, and every
\* identifier allocated inside a callback is distinct from all the
\* identifiers allocated before it.
C20_ReentrantStateKept ==
    [][/\ ReentrantCountKept'
       /\ FreshInCallback(timers, timers')
       /\ FreshInCallback(notices, notices')]_vars

\* ---------------------------------------------- properties: progress bar
MethodNames == {c.name : c \in Methods}

\* C21: a method of the progress bar called on an unbound handle panics with
\* the "not bound" message, called on a bound handle that is not a window
\* handle it panics with the "handle is not HWND" message, and in both cases
\* it sends no message to a native object.
C21_MisuseFailsFast ==
    lastOp.op \in MethodNames =>
        /\ ControlHandle_blank(lastOp.handle) =>
              lastOp.res = NOT_BOUND /\ panicked /\ sent = << >>
        /\ (~ControlHandle_blank(lastOp.handle) /\ lastOp.handle.tag # "Hwnd") =>
              lastOp.res = BAD_HANDLE /\ panicked /\ sent = << >>
        /\ lastOp.handle.tag = "Hwnd" => Len(sent) >= 1

C21_Witness ==
    /\ lastOp.op = "pos"
    /\ lastOp.handle.tag = "Timer"
    /\ lastOp.res = BAD_HANDLE
    /\ sent = << >>
    /\ windows = {1, 2}

\* C24: a build without a parent returns ControlWithoutParent, and a build
\* whose window construction fails returns that error; either way no window
\* is created, the output control is left as it was, and no setter runs (no
\* message is sent, no bar changes).
C24_FailedBuildChangesNothing ==
    [][lastOp'.op = "build" =>
          /\ ~lastOp'.ret.parent.some => lastOp'.res = "ControlWithoutParent"
          /\ lastOp'.res # "Ok" =>
                /\ out' = out
                /\ windows' = windows
                /\ bars' = bars
                /\ sent' = << >>]_vars

C24_Witness ==
    /\ lastOp.op = "build"
    /\ lastOp.res = "WindowCreationFailed"
    /\ out = ProgressBar(NoHandle)
    /\ windows = {1}

\* C25: after a successful build the bar has the configured range, and its
\* position is the configured position clamped to the configured range.
C25_BuiltAsConfigured ==
    (lastOp.op = "build" /\ lastOp.res = "Ok") =>
        LET bar == bars[lastOp.hwnd]
            cfg == lastOp.ret
        IN  /\ bar.lo = cfg.range[1]
            /\ bar.hi = cfg.range[2]
            /\ bar.pos = Clamp(cfg.pos, cfg.range[1], cfg.range[2])

\* -------------------------------------------- properties: right button up
\* The events and handles the hook at position i passed to its callback.
CallsAt(i) ==
    LET cb == SelectSeq(trace, LAMBDA st : st.pos = i /\ st.op = "callback")
    IN  [n \in DOMAIN cb |-> <<cb[n].event, cb[n].handle>>]

\* C22: a right-button-up of the tray icon invokes the callback twice with
\* the SystemTray handle, the right-up mouse press and then the context
\* menu; a right-button-up of the window itself invokes it once, with the
\* right-up mouse press and the window's handle, and never with the context
\* menu.
C22_RightUpAsymmetry ==
    Recorded =>
        \A i \in HooksReached("process_events") :
            /\ TrayRightUp(lastOp.m) =>
                  CallsAt(i) = << <<"MousePressRightUp", SystemTray(lastOp.hwnd)>>,
                                  <<"OnContextMenu", SystemTray(lastOp.hwnd)>> >>
            /\ lastOp.m.msg = WM_RBUTTONUP =>
                  CallsAt(i) = << <<"MousePressRightUp", Hwnd(lastOp.hwnd)>> >>

\* A right-button-up of a hooked window went through its hook.
C22_Witness ==
    /\ Recorded
    /\ lastOp.m.msg = WM_RBUTTONUP
    /\ \E i \in HooksReached("process_events") : Len(CallsAt(i)) = 1

\* ---------------------------------------------------- properties: tooltip
TooltipRequest(m) == m.msg = WM_NOTIFY /\ m.hdr.code = TTN_GETDISPINFOW

\* C23: a tooltip-text request, whatever the class of the control that sent
\* it, invokes the callback exactly once, with the tooltip-text event, a
\* payload holding the address of the native notification, and the handle of
\* the window named by idFrom.
C23_TooltipOwnPath ==
    (Recorded /\ TooltipRequest(lastOp.m)) =>
        \A i \in HooksReached("process_events") :
            /\ Cardinality(StepsAt(i, "callback")) = 1
            /\ \A j \in StepsAt(i, "callback") :
                  /\ trace[j].event = "OnTooltipText"
                  /\ trace[j].data = OnTooltipText(lastOp.m.l)
                  /\ trace[j].handle = Hwnd(lastOp.m.hdr.idFrom)

\* A tab control, whose class has a notification table, sent a tooltip-text
\* request for another window.
C23_Witness ==
    /\ Recorded
    /\ TooltipRequest(lastOp.m)
    /\ class[lastOp.m.hdr.hwndFrom] = "SysTabControl32"
    /\ lastOp.m.hdr.idFrom # lastOp.m.hdr.hwndFrom
    /\ \E i \in HooksReached("process_events") : StepsAt(i, "callback") # {}

\* ------------------------------------------ properties: handle round trip
\* C26: when build_timer (build_notice) has returned a handle for window P
\* and id n, and then a timer tick or a notice is raised on P with id n, the
\* handle passed to the callback equals the returned handle exactly when the
\* message is of the handle's kind: a tick gives the timer handle back, a
\* notice the notice handle, and Timer(P, n) is not Notice(P, n).
C26_HandlesRoundTrip ==
    [][(/\ lastOp.op \in {"build_timer", "build_notice"}
        /\ lastOp.res = "Ok"
        /\ lastOp'.op = "dispatch"
        /\ lastOp'.m.msg \in {WM_TIMER, NOTICE_MESSAGE}
        /\ lastOp'.hwnd = lastOp.handle.hwnd
        /\ lastOp'.m.w = lastOp.handle.id)
       => /\ CallbackSteps(trace') # {}
          /\ \A j \in CallbackSteps(trace') :
                (trace'[j].handle = lastOp.handle)
                    <=> ((lastOp.op = "build_timer") <=> (lastOp'.m.msg = WM_TIMER))]_vars

\* A timer ticked on its window with an id that the notice counter has
\* issued too, and the callback received the timer's handle.
C26_Witness ==
    /\ Recorded
    /\ lastOp.m.msg = WM_TIMER
    /\ <<lastOp.hwnd, lastOp.m.w>> \in running
    /\ lastOp.m.w \in Ids(notices)
    /\ \E j \in CallbackSteps(trace) : trace[j].handle = Timer(lastOp.hwnd, lastOp.m.w)

\* ------------------------------------------------ properties: close order
EventHooks(h) == {i \in DOMAIN chain[h] : chain[h][i].proc = "process_events"}

\* A close request was delivered to a toolkit window that has a subtree hook.
CloseRequest ==
    /\ Recorded
    /\ lastOp.m.msg = WM_CLOSE
    /\ class[lastOp.hwnd] = "NativeWindowsGuiWindow"
    /\ EventHooks(lastOp.hwnd) # {}

\* The hook at position i invoked its callback once, with the window-close
\* event, then forwarded once, and the base procedure ran after that.
CloseOrderAt(i) ==
    /\ Cardinality(StepsAt(i, "callback")) = 1
    /\ \A j \in StepsAt(i, "callback") :
          trace[j].event = "OnWindowClose" /\ trace[j].handle = Hwnd(lastOp.hwnd)
    /\ Cardinality(StepsAt(i, "DefSubclassProc")) = 1
    /\ Before(StepsAt(i, "callback"), StepsAt(i, "DefSubclassProc"))
    /\ Before(StepsAt(i, "DefSubclassProc"), BaseSteps(trace))

\* C27 as claimed: a close request delivered to a hooked toolkit window
\* always invokes the callback exactly once, then forwards, then the base
\* procedure hides the window.
C27_CallbackThenHideAlways ==
    CloseRequest =>
        /\ \A i \in EventHooks(lastOp.hwnd) : CloseOrderAt(i)
        /\ BaseSteps(trace) # {}
        /\ lastOp.hwnd \notin visible

\* C27 as amended: every subtree hook the close request reaches invokes its
\* callback exactly once, then forwards, and the base procedure hides the
\* window after that; the request reaches every subtree hook and the base
\* procedure unless a raw hook of the window supplied a result, and then
\* the base procedure does not run.
C27_CallbackThenHide ==
    CloseRequest =>
        /\ \A i \in HooksReached("process_events") : CloseOrderAt(i)
        /\ ~RawSupplied(trace) =>
              /\ HooksReached("process_events") = EventHooks(lastOp.hwnd)
              /\ BaseSteps(trace) # {}
              /\ lastOp.hwnd \notin visible
        /\ RawSupplied(trace) => BaseSteps(trace) = {}

\* A close request went through a subtree hook to the base procedure: the
\* callback was invoked and the window is hidden.
C27_Witness ==
    /\ CloseRequest
    /\ \E i \in HooksReached("process_events") : StepsAt(i, "callback") # {}
    /\ BaseSteps(trace) # {}
    /\ lastOp.hwnd \notin visible

====
